---- MODULE Spec2Model ----
(***************************************************************************)
(* The sports content pipeline: ContentPipeline.process and process_batch  *)
(* (main.py) driving the classifier, the extractor, the generator and the  *)
(* router, with the router's directories and the pipeline log as state.    *)
(*                                                                         *)
(* Representation.                                                         *)
(*  - A Python dict is a TLA+ record; a key that is absent is a field that *)
(*    is absent (Get models dict.get).  None is the string NONE.           *)
(*  - A collaborator reply is represented by what the stage makes of it:   *)
(*    the call raised (call), the text could not be parsed (parse), or the *)
(*    JSON value it parsed to (value, tagged dict / list).                 *)
(*  - The values of metadata["teams"] and metadata["players"] are kept as  *)
(*    their shape (a list of strings, an empty list, null, a list of       *)
(*    objects, a mapping): the code only takes len(), a slice and a join   *)
(*    of them.                                                             *)
(*  - The clock counts ticks; the second of a tick is tick \div            *)
(*    TicksPerSecond.  isoformat() keeps the tick, strftime("%H%M%S")      *)
(*    keeps the second.                                                    *)
(*  - An exception is a record [type, msg, missing, available]; str(e) is  *)
(*    the record without its type.                                         *)
(***************************************************************************)
EXTENDS Integers, Sequences, FiniteSets, TLC

\* ------------------------------------------------------------------ bounds
MaxBatch == 2
MaxOps == 2
MaxTime == 1
TicksPerSecond == 1
MaxLen == 4
MaxPayload == 3

\* --------------------------------------------------------------- constants
NONE == "<None>"

\* config.CONTENT_TYPE_DIRS
CONTENT_TYPE_DIRS ==
  [ match_report  |-> "match_reports",
    transfer_news |-> "transfer_news",
    injury_update |-> "injury_updates",
    opinion_piece |-> "opinion_pieces",
    other         |-> "other" ]

OUTPUT_DIR == "outputs"

\* classifier.py: valid_types
valid_types == {"match_report", "transfer_news", "injury_update", "opinion_piece", "other"}

Dirs == {CONTENT_TYPE_DIRS[k] : k \in DOMAIN CONTENT_TYPE_DIRS}

\* ----------------------------------------------------------- Python idioms
\* dict.get(key, default)
GetOr(d, key, default) == IF key \in DOMAIN d THEN d[key] ELSE default

\* dict.get(key)
Get(d, key) == GetOr(d, key, NONE)

\* truth value of an identifier or source: None and "" are falsy
Truthy(x) == x # NONE /\ x # ""

\* shapes of a JSON value held under metadata["teams"] / ["players"]
Shapes == {"strs", "empty", "null", "objs", "map"}

\* len(x) raises TypeError exactly for None (and numbers)
LenRaises(shape) == shape = "null"

\* x[:3] raises for None and for a mapping
SliceRaises(shape) == shape \in {"null", "map"}

\* ', '.join(x) raises for None and for a list holding a non-string
JoinRaises(shape) == shape \in {"null", "objs"}

\* bool(x): None and empty containers are falsy
ShapeTruthy(shape) == shape \notin {"null", "empty"}

\* -------------------------------------------------------------- exceptions
\* An operator that may raise returns the exception, or NoExc when it returns.
NoExc == [type |-> "", msg |-> "", missing |-> {}, available |-> {}]

Raised(e) == e.type # ""

Exc(type, msg) == [type |-> type, msg |-> msg, missing |-> {}, available |-> {}]

\* raise Exception(f"<prefix>: {e}")
Wrap(prefix, e) ==
  [type |-> "Exception", msg |-> prefix \o ": " \o e.msg,
   missing |-> e.missing, available |-> e.available]

\* str(e)
Str(e) == [msg |-> e.msg, missing |-> e.missing, available |-> e.available]

\* ------------------------------------------------------------- the clock
\* datetime.now().strftime("%Y%m%d_%H%M%S"): the second of a tick
Second(t) == t \div TicksPerSecond

\* ------------------------------------------------------------- logger.py
\* PipelineLogger.log_stage: the log entry written (the timestamp left out)
log_stage(stage, status, input_id, details) ==
  IF details # <<>>
    THEN [stage |-> stage, status |-> status, input_id |-> input_id, details |-> details]
    ELSE [stage |-> stage, status |-> status, input_id |-> input_id]

\* PipelineLogger.log_start
log_start(input_id, source) ==
  log_stage("PROCESS_START", "SUCCESS", input_id,
            IF Truthy(source) THEN [source |-> source] ELSE <<>>)

\* PipelineLogger.log_complete
log_complete(input_id, output_path) ==
  log_stage("PROCESS_COMPLETE", "SUCCESS", input_id, [output_path |-> output_path])

\* PipelineLogger.log_error
log_error(input_id, stage, e) ==
  log_stage(stage, "FAILURE", input_id, [error |-> Str(e), error_type |-> e.type])

\* -------------------------------------------------------------- utils.py
\* validate_dict_keys reporting only one of the missing keys
validate_dict_keys_FirstMissingOnly(data, required_keys, context) ==
  IF data.t # "dict"
    THEN Exc("ValueError", context \o " must be a dictionary")
    ELSE LET missing_keys == {k \in required_keys : k \notin DOMAIN data.v}
         IN IF missing_keys # {}
              THEN [type |-> "ValueError",
                    msg |-> context \o " missing required keys",
                    missing |-> {CHOOSE k \in missing_keys : TRUE},
                    available |-> DOMAIN data.v]
              ELSE NoExc

\* validate_dict_keys listing what the keys hold along with the available
\* keys
validate_dict_keys_LeaksValues(data, required_keys, context) ==
  IF data.t # "dict"
    THEN Exc("ValueError", context \o " must be a dictionary")
    ELSE LET missing_keys == {k \in required_keys : k \notin DOMAIN data.v}
         IN IF missing_keys # {}
              THEN [type |-> "ValueError",
                    msg |-> context \o " missing required keys",
                    missing |-> missing_keys,
                    available |-> (DOMAIN data.v) \cup {data.v[k] : k \in DOMAIN data.v}]
              ELSE NoExc

\* validate_dict_keys: the exception raised, or NoExc when it returns
validate_dict_keys(data, required_keys, context) ==
  IF data.t # "dict"
    THEN Exc("ValueError", context \o " must be a dictionary")
    ELSE LET missing_keys == {k \in required_keys : k \notin DOMAIN data.v}
         IN IF missing_keys # {}
              THEN [type |-> "ValueError",
                    msg |-> context \o " missing required keys",
                    missing |-> missing_keys,
                    available |-> DOMAIN data.v]
              ELSE NoExc

\* the ValueError extract_json_from_response raises for a text it cannot parse
ParseFailure(parse, context) ==
  CASE parse = "empty"     -> Exc("ValueError", "Empty response received for " \o context)
    [] parse = "no_json"   -> Exc("ValueError", "No JSON found in " \o context)
    [] parse = "malformed" -> Exc("ValueError", "Malformed JSON in " \o context)
    [] parse = "failed"    -> Exc("ValueError", "Failed to parse JSON from " \o context)

\* ------------------------------------------------- texts (Python str)
\* A text is a sequence of characters, each a one-character string, except
\* the backtick, which a TLA+ string cannot hold and is written as a word.
BACKTICK == "backtick"

\* the characters str.strip() and the regex class \s take for whitespace
PyWhitespace == {" ", "\n"}

RECURSIVE LStrip(_)
LStrip(s) == IF s # <<>> /\ Head(s) \in PyWhitespace THEN LStrip(Tail(s)) ELSE s

RECURSIVE RStrip(_)
RStrip(s) ==
  IF s # <<>> /\ s[Len(s)] \in PyWhitespace THEN RStrip(SubSeq(s, 1, Len(s) - 1)) ELSE s

\* str.strip()
Strip(s) == RStrip(LStrip(s))

\* s[i:i+Len(sub)] == sub, for a position i of s counted from 1
At(s, sub, i) ==
  /\ i >= 1
  /\ i + Len(sub) - 1 <= Len(s)
  /\ SubSeq(s, i, i + Len(sub) - 1) = sub

\* the positions at which sub occurs in s
Occurrences(s, sub) == {i \in 1..Len(s) : At(s, sub, i)}

\* sub in s
Contains(s, sub) == Occurrences(s, sub) # {}

Min(S) == CHOOSE x \in S : \A y \in S : x <= y
Max(S) == CHOOSE x \in S : \A y \in S : x >= y

\* str.find and str.rfind, with 0 where Python gives -1
Find(s, sub) == IF Contains(s, sub) THEN Min(Occurrences(s, sub)) ELSE 0
RFind(s, sub) == IF Contains(s, sub) THEN Max(Occurrences(s, sub)) ELSE 0

\* str.split('\n')
RECURSIVE SplitLines(_)
SplitLines(s) ==
  LET i == Find(s, <<"\n">>)
  IN IF i = 0 THEN <<s>>
     ELSE <<SubSeq(s, 1, i - 1)>> \o SplitLines(SubSeq(s, i + 1, Len(s)))

\* '\n'.join(lines)
RECURSIVE JoinLines(_)
JoinLines(lines) ==
  IF lines = <<>> THEN <<>>
  ELSE IF Len(lines) = 1 THEN lines[1]
  ELSE lines[1] \o <<"\n">> \o JoinLines(Tail(lines))

\* ------------------------------------------------------------ json.loads
\* JSON values.  Every value has the same fields, so that any two values can
\* be compared: a number, a string, a list of values, or an object (a
\* function from its keys to values).  The characters of the texts are
\* { } [ ] , : the quote, 1, the backtick, space, newline and letters, so the
\* numbers are 1, 11, ...
\* and there are neither escapes nor the literals true, false, null.
JNum(n) == [t |-> "num", n |-> n, s |-> <<>>, items |-> <<>>, members |-> <<>>]
JStr(s) == [t |-> "str", n |-> 0, s |-> s, items |-> <<>>, members |-> <<>>]
JList(items) == [t |-> "list", n |-> 0, s |-> <<>>, items |-> items, members |-> <<>>]
JDict(members) == [t |-> "dict", n |-> 0, s |-> <<>>, items |-> <<>>, members |-> members]

\* the whitespace of JSON
JsonWhitespace == {" ", "\n"}

\* a failed scan (JSONDecodeError)
Bad == [ok |-> FALSE]

\* a scan that has read a value and stands at position end
Scanned(value, end) == [ok |-> TRUE, value |-> value, end |-> end]

\* WHITESPACE.match(s, end).end()
RECURSIVE SkipWs(_, _)
SkipWs(s, end) ==
  IF end <= Len(s) /\ s[end] \in JsonWhitespace THEN SkipWs(s, end + 1) ELSE end

\* the character at position end, "" past the end of the text
CharAt(s, end) == IF end >= 1 /\ end <= Len(s) THEN s[end] ELSE ""

\* py_scanstring, strict: the characters up to the closing quote; a newline
\* inside a string is a control character and an error
RECURSIVE py_scanstring(_, _, _)
py_scanstring(s, end, chars) ==
  IF end > Len(s) THEN Bad
  ELSE IF s[end] = "\"" THEN Scanned(chars, end + 1)
  ELSE IF s[end] = "\n" THEN Bad
  ELSE py_scanstring(s, end + 1, Append(chars, s[end]))

\* the end of the digits that start at position end
RECURSIVE NumberEnd(_, _)
NumberEnd(s, end) == IF CharAt(s, end) = "1" THEN NumberEnd(s, end + 1) ELSE end

\* int() of k digits 1
RECURSIVE Ones(_)
Ones(k) == IF k = 0 THEN 0 ELSE 10 * Ones(k - 1) + 1

RECURSIVE scan_once(_, _)
RECURSIVE ArrayItems(_, _, _)
RECURSIVE ObjectMembers(_, _, _)

\* JSONArray: end is the position after the "["
JSONArray(s, end) ==
  LET e1 == SkipWs(s, end)
  IN IF CharAt(s, e1) = "]" THEN Scanned(JList(<<>>), e1 + 1)
     ELSE ArrayItems(s, e1, <<>>)

\* the loop of JSONArray: a value, then "]" or "," and the next value
ArrayItems(s, end, values) ==
  LET r == scan_once(s, end)
  IN IF ~r.ok THEN Bad
     ELSE LET e1 == SkipWs(s, r.end)
          IN IF CharAt(s, e1) = "]"
               THEN Scanned(JList(Append(values, r.value)), e1 + 1)
             ELSE IF CharAt(s, e1) = ","
               THEN ArrayItems(s, SkipWs(s, e1 + 1), Append(values, r.value))
             ELSE Bad

\* JSONObject: end is the position after the "{"
JSONObject(s, end) ==
  LET e1 == SkipWs(s, end)
  IN IF CharAt(s, e1) = "}" THEN Scanned(JDict(<<>>), e1 + 1)
     ELSE IF CharAt(s, e1) = "\"" THEN ObjectMembers(s, e1 + 1, <<>>)
     ELSE Bad

\* the loop of JSONObject: end is the position after the opening quote of a
\* key; a key given twice keeps its last value
ObjectMembers(s, end, pairs) ==
  LET k == py_scanstring(s, end, <<>>)
  IN IF ~k.ok THEN Bad
     ELSE LET e1 == SkipWs(s, k.end)
          IN IF CharAt(s, e1) # ":" THEN Bad
             ELSE LET r == scan_once(s, SkipWs(s, e1 + 1))
                  IN IF ~r.ok THEN Bad
                     ELSE LET e2 == SkipWs(s, r.end)
                              pairs2 == (k.value :> r.value) @@ pairs
                          IN IF CharAt(s, e2) = "}" THEN Scanned(JDict(pairs2), e2 + 1)
                             ELSE IF CharAt(s, e2) # "," THEN Bad
                             ELSE LET e3 == SkipWs(s, e2 + 1)
                                  IN IF CharAt(s, e3) = "\""
                                       THEN ObjectMembers(s, e3 + 1, pairs2)
                                       ELSE Bad

\* json.scanner scan_once: the value that starts at position idx
scan_once(s, idx) ==
  CASE CharAt(s, idx) = "\"" ->
         LET r == py_scanstring(s, idx + 1, <<>>)
         IN IF r.ok THEN Scanned(JStr(r.value), r.end) ELSE Bad
    [] CharAt(s, idx) = "{" -> JSONObject(s, idx + 1)
    [] CharAt(s, idx) = "[" -> JSONArray(s, idx + 1)
    [] CharAt(s, idx) = "1" ->
         Scanned(JNum(Ones(NumberEnd(s, idx) - idx)), NumberEnd(s, idx))
    [] OTHER -> Bad

\* json.loads: the value of the text, JSONDecodeError (Bad) when the text is
\* not one JSON value with whitespace around it
json_loads(s) ==
  LET r == scan_once(s, SkipWs(s, 1))
  IN IF r.ok /\ SkipWs(s, r.end) = Len(s) + 1
       THEN [ok |-> TRUE, value |-> r.value]
       ELSE Bad

\* ------------------------------------ utils.extract_json_from_response
\* What extract_json_from_response makes of a text: the value it returns and
\* the json.loads attempts it made on the way ("direct", "fence_match",
\* "fence_lines", "markers"), or the kind of ValueError it raises (the parse
\* of ParseFailure) and the attempts made before it.
Returned(value, tried) == [ok |-> TRUE, value |-> value, tried |-> tried]
RaisedValueError(kind, tried) == [ok |-> FALSE, kind |-> kind, tried |-> tried]

FENCE == <<BACKTICK, BACKTICK, BACKTICK>>
JSON_TAG == <<"j", "s", "o", "n">>
FENCE_CLOSE == <<"\n">> \o FENCE

\* the position after the whitespace that starts at position j
RECURSIVE WsEnd(_, _)
WsEnd(s, j) == IF CharAt(s, j) \in PyWhitespace THEN WsEnd(s, j + 1) ELSE j

\* the regex FENCE(?:json)?\s*\n(.*?)\nFENCE (DOTALL) matched at position i: the
\* tag is taken when it is there (without it the next character would have
\* to be whitespace); \s* is greedy, so the group starts after the last
\* newline of the whitespace that still leaves a closing fence to find; the
\* group is lazy, so it ends before the first closing fence
FenceMatchAt(s, i) ==
  IF ~At(s, FENCE, i) THEN [found |-> FALSE]
  ELSE LET j == IF At(s, JSON_TAG, i + 3) THEN i + 7 ELSE i + 3
           Closes(g) == {e \in g..Len(s) : At(s, FENCE_CLOSE, e)}
           Starts == {g \in (j + 1)..WsEnd(s, j) : s[g - 1] = "\n" /\ Closes(g) # {}}
       IN IF Starts = {} THEN [found |-> FALSE]
          ELSE LET g == Max(Starts)
               IN [found |-> TRUE, group |-> SubSeq(s, g, Min(Closes(g)) - 1),
                   stop |-> Min(Closes(g)) + Len(FENCE_CLOSE)]

\* re.findall(pattern, s, re.DOTALL) from position i on: the groups of the
\* matches, each search starting where the match before it stopped
RECURSIVE FenceBlocks(_, _)
FenceBlocks(s, i) ==
  LET At_ == {k \in i..Len(s) : FenceMatchAt(s, k).found}
  IN IF At_ = {} THEN <<>>
     ELSE LET m == FenceMatchAt(s, Min(At_))
          IN <<m.group>> \o FenceBlocks(s, m.stop)

\* re.findall(pattern, s, re.DOTALL)[:1]: the group of the leftmost match
FirstFenceMatch(s) ==
  LET At_ == {i \in 1..Len(s) : FenceMatchAt(s, i).found}
  IN IF At_ = {} THEN [found |-> FALSE] ELSE FenceMatchAt(s, Min(At_))

\* the lines that do not start, after strip(), with a fence (line 55)
RECURSIVE DropFenceLines(_)
DropFenceLines(lines) ==
  IF lines = <<>> THEN <<>>
  ELSE (IF At(Strip(Head(lines)), FENCE, 1) THEN <<>> ELSE <<Head(lines)>>)
         \o DropFenceLines(Tail(lines))

\* RemoveCodeFences left out: the text is never looked at for fences
RemoveCodeFences_Skipped(cleaned_text) == RaisedValueError("", <<>>)

\* RemoveCodeFences trying every fenced block in turn, not the first only
RemoveCodeFences_AnyBlock(cleaned_text) ==
  IF ~Contains(cleaned_text, FENCE) THEN RaisedValueError("", <<>>)
  ELSE LET matches == FenceBlocks(cleaned_text, 1)
           parsing == {k \in 1..Len(matches) : json_loads(matches[k]).ok}
           cleaned_lines == DropFenceLines(SplitLines(cleaned_text))
           second == json_loads(JoinLines(cleaned_lines))
           t1 == [k \in 1..Len(matches) |-> "fence_match"]
       IN IF parsing # {}
            THEN Returned(json_loads(matches[Min(parsing)]).value,
                          SubSeq(t1, 1, Min(parsing)))
          ELSE IF second.ok THEN Returned(second.value, Append(t1, "fence_lines"))
          ELSE RaisedValueError("", Append(t1, "fence_lines"))

\* Strategy 2 (lines 40-59): the first fenced block, else the text without
\* its fence lines; kind "" when the strategy falls through
RemoveCodeFences(cleaned_text) ==
  IF ~Contains(cleaned_text, FENCE) THEN RaisedValueError("", <<>>)
  ELSE LET matches == FirstFenceMatch(cleaned_text)
           first == IF matches.found THEN json_loads(matches.group) ELSE Bad
           t1 == IF matches.found THEN <<"fence_match">> ELSE <<>>
           cleaned_lines == DropFenceLines(SplitLines(cleaned_text))
           second == json_loads(JoinLines(cleaned_lines))
       IN IF first.ok THEN Returned(first.value, t1)
          ELSE IF second.ok THEN Returned(second.value, Append(t1, "fence_lines"))
          ELSE RaisedValueError("", Append(t1, "fence_lines"))

\* ExtractByMarkers returning the first value of the candidate whatever
\* follows it in the candidate
ExtractByMarkers_TakesFirstValue(cleaned_text) ==
  LET first_brace == Find(cleaned_text, <<"{">>)
      first_bracket == Find(cleaned_text, <<"[">>)
      start == IF first_brace = 0 THEN first_bracket
               ELSE IF first_bracket = 0 THEN first_brace
               ELSE Min({first_brace, first_bracket})
      end_char == IF start = first_brace THEN "}" ELSE "]"
      end == RFind(cleaned_text, <<end_char>>)
      json_str == SubSeq(cleaned_text, start, end)
      r == scan_once(json_str, SkipWs(json_str, 1))
  IN IF first_brace = 0 /\ first_bracket = 0 THEN RaisedValueError("no_json", <<>>)
     ELSE IF end = 0 \/ end < start THEN RaisedValueError("malformed", <<>>)
     ELSE IF r.ok THEN Returned(r.value, <<"markers">>)
     ELSE RaisedValueError("failed", <<"markers">>)

\* ExtractByMarkers taking the brace for the opener whenever the text has
\* one, even after a bracket
ExtractByMarkers_BraceFirst(cleaned_text) ==
  LET first_brace == Find(cleaned_text, <<"{">>)
      first_bracket == Find(cleaned_text, <<"[">>)
      start == IF first_brace = 0 THEN first_bracket ELSE first_brace
      end_char == IF start = first_brace THEN "}" ELSE "]"
      end == RFind(cleaned_text, <<end_char>>)
      json_str == SubSeq(cleaned_text, start, end)
      r == json_loads(json_str)
  IN IF first_brace = 0 /\ first_bracket = 0 THEN RaisedValueError("no_json", <<>>)
     ELSE IF end = 0 \/ end < start THEN RaisedValueError("malformed", <<>>)
     ELSE IF r.ok THEN Returned(r.value, <<"markers">>)
     ELSE RaisedValueError("failed", <<"markers">>)

\* Strategy 3 (lines 61-99): from the first { or [ to the last } or ]
ExtractByMarkers(cleaned_text) ==
  LET first_brace == Find(cleaned_text, <<"{">>)
      first_bracket == Find(cleaned_text, <<"[">>)
      start == IF first_brace = 0 THEN first_bracket
               ELSE IF first_bracket = 0 THEN first_brace
               ELSE Min({first_brace, first_bracket})
      end_char == IF start = first_brace THEN "}" ELSE "]"
      end == RFind(cleaned_text, <<end_char>>)
      json_str == SubSeq(cleaned_text, start, end)
      r == json_loads(json_str)
  IN IF first_brace = 0 /\ first_bracket = 0 THEN RaisedValueError("no_json", <<>>)
     ELSE IF end = 0 \/ end < start THEN RaisedValueError("malformed", <<>>)
     ELSE IF r.ok THEN Returned(r.value, <<"markers">>)
     ELSE RaisedValueError("failed", <<"markers">>)

\* extract_json_from_response trying the markers before the text as it is
extract_json_from_response_MarkersFirst(response_text) ==
  IF response_text = <<>> \/ Strip(response_text) = <<>>
    THEN RaisedValueError("empty", <<>>)
    ELSE LET cleaned_text == Strip(response_text)
             s3 == ExtractByMarkers(cleaned_text)
             s1 == json_loads(cleaned_text)
         IN IF s3.ok THEN s3
            ELSE IF s1.ok THEN Returned(s1.value, s3.tried \o <<"direct">>)
            ELSE [s3 EXCEPT !.tried = @ \o <<"direct">>]

\* extract_json_from_response (lines 10-99)
extract_json_from_response(response_text) ==
  IF response_text = <<>> \/ Strip(response_text) = <<>>
    THEN RaisedValueError("empty", <<>>)
    ELSE LET cleaned_text == Strip(response_text)
             s1 == json_loads(cleaned_text)
             s2 == RemoveCodeFences(cleaned_text)
             s3 == ExtractByMarkers(cleaned_text)
         IN IF s1.ok THEN Returned(s1.value, <<"direct">>)
            ELSE IF s2.ok THEN Returned(s2.value, <<"direct">> \o s2.tried)
            ELSE [s3 EXCEPT !.tried = <<"direct">> \o s2.tried \o @]

\* ----------------------------------------------------------- replies
ApiFailure(type) == [call |-> type]
Unparsed(parse) == [call |-> "ok", parse |-> parse]
Parsed(t, v) == [call |-> "ok", parse |-> "ok", value |-> [t |-> t, v |-> v]]

\* the exception a stage's try block raises before it has a parsed value,
\* or NoExc: the API call raised, or extract_json_from_response raised
ReplyFailure(reply, context) ==
  IF reply.call # "ok" THEN Exc(reply.call, "api call failed")
  ELSE IF reply.parse # "ok" THEN ParseFailure(reply.parse, context)
  ELSE NoExc

\* StageFailure raising the stage's own message without the cause
StageFailure_DropsCause(stage, input_id, e, json_prefix, prefix) ==
  [ok |-> FALSE,
   exc |-> Exc("Exception", prefix),
   events |-> <<log_error(input_id, stage, e)>>]

\* the two except clauses of a stage: log_error, then raise Exception(...)
StageFailure(stage, input_id, e, json_prefix, prefix) ==
  [ok |-> FALSE,
   exc |-> IF e.type = "JSONDecodeError" THEN Wrap(json_prefix, e) ELSE Wrap(prefix, e),
   events |-> <<log_error(input_id, stage, e)>>]
\* --------------------------------------------------------- classifier.py
\* classify without the check of content_type against valid_types
classify_AcceptsAnyType(content, input_id, reply) ==
  LET fail(e) == StageFailure("CLASSIFY", input_id, e,
                              "Failed to parse classification response as JSON",
                              "Classification failed")
      e0 == ReplyFailure(reply, "classification for " \o input_id)
  IN IF Raised(e0) THEN fail(e0)
     ELSE LET result == reply.value
              e1 == validate_dict_keys(result,
                                       {"content_type", "confidence", "reasoning"},
                                       "Classification result")
          IN IF Raised(e1) THEN fail(e1)
             ELSE [ok |-> TRUE,
                   value |-> result.v,
                   events |-> <<log_stage("CLASSIFY", "SUCCESS", input_id,
                                          [content_type |-> result.v.content_type,
                                           confidence |-> result.v.confidence])>>]

\* classify taking a content_type outside valid_types for "other"
classify_CoercesToOther(content, input_id, reply) ==
  LET fail(e) == StageFailure("CLASSIFY", input_id, e,
                              "Failed to parse classification response as JSON",
                              "Classification failed")
      e0 == ReplyFailure(reply, "classification for " \o input_id)
  IN IF Raised(e0) THEN fail(e0)
     ELSE LET result == reply.value
              e1 == validate_dict_keys(result,
                                       {"content_type", "confidence", "reasoning"},
                                       "Classification result")
          IN IF Raised(e1) THEN fail(e1)
             ELSE LET ct == IF result.v.content_type \in valid_types
                              THEN result.v.content_type ELSE "other"
                  IN [ok |-> TRUE,
                      value |-> [result.v EXCEPT !.content_type = ct],
                      events |-> <<log_stage("CLASSIFY", "SUCCESS", input_id,
                                             [content_type |-> ct,
                                              confidence |-> result.v.confidence])>>]

\* ContentClassifier.classify: [ok, value | exc, events]
classify(content, input_id, reply) ==
  LET fail(e) == StageFailure("CLASSIFY", input_id, e,
                              "Failed to parse classification response as JSON",
                              "Classification failed")
      e0 == ReplyFailure(reply, "classification for " \o input_id)
  IN IF Raised(e0) THEN fail(e0)
     ELSE LET result == reply.value
              e1 == validate_dict_keys(result,
                                       {"content_type", "confidence", "reasoning"},
                                       "Classification result")
          IN IF Raised(e1) THEN fail(e1)
             ELSE IF result.v.content_type \notin valid_types
               THEN fail(Exc("ValueError", "Invalid content_type: " \o result.v.content_type))
             ELSE [ok |-> TRUE,
                   value |-> result.v,
                   events |-> <<log_stage("CLASSIFY", "SUCCESS", input_id,
                                          [content_type |-> result.v.content_type,
                                           confidence |-> result.v.confidence])>>]

\* ---------------------------------------------------------- extractor.py
\* MetadataExtractor._build_extraction_prompt: the template chosen and the
\* content embedded in it
_build_extraction_prompt(content, content_type) ==
  [template |-> IF content_type \in {"match_report", "transfer_news",
                                     "injury_update", "opinion_piece"}
                  THEN content_type ELSE "other",
   content |-> content]

\* extract enforcing the key_stats sub-schema: key_stats has to be present and
\* of the shape of the item's content type
extract_ChecksKeyStats(content, content_type, input_id, reply) ==
  LET fail(e) == StageFailure("EXTRACT", input_id, e,
                              "Failed to parse metadata extraction response",
                              "Metadata extraction failed")
      e0 == ReplyFailure(reply, "metadata extraction for " \o input_id)
  IN IF Raised(e0) THEN fail(e0)
     ELSE LET metadata == reply.value
          IN IF metadata.t # "dict"
               THEN fail(Exc("ValueError", "Expected a JSON object, got " \o metadata.t))
             ELSE IF GetOr(metadata.v, "key_stats", "null") # content_type
               THEN fail(Exc("ValueError", "key_stats does not fit " \o content_type))
             ELSE IF \/ LenRaises(GetOr(metadata.v, "teams", "empty"))
                     \/ LenRaises(GetOr(metadata.v, "players", "empty"))
               THEN fail(Exc("TypeError", "object of type 'NoneType' has no len()"))
             ELSE [ok |-> TRUE,
                   value |-> metadata.v,
                   events |-> <<log_stage("EXTRACT", "SUCCESS", input_id,
                                          [teams_found |-> GetOr(metadata.v, "teams", "empty"),
                                           players_found |-> GetOr(metadata.v, "players", "empty"),
                                           competition |-> GetOr(metadata.v, "competition", "N/A")])>>]

\* MetadataExtractor.extract: [ok, value | exc, events]
extract(content, content_type, input_id, reply) ==
  LET fail(e) == StageFailure("EXTRACT", input_id, e,
                              "Failed to parse metadata extraction response",
                              "Metadata extraction failed")
      e0 == ReplyFailure(reply, "metadata extraction for " \o input_id)
  IN IF Raised(e0) THEN fail(e0)
     ELSE LET metadata == reply.value
          IN IF metadata.t # "dict"
               THEN fail(Exc("ValueError", "Expected a JSON object, got " \o metadata.t))
             ELSE IF \/ LenRaises(GetOr(metadata.v, "teams", "empty"))
                     \/ LenRaises(GetOr(metadata.v, "players", "empty"))
               THEN fail(Exc("TypeError", "object of type 'NoneType' has no len()"))
             ELSE [ok |-> TRUE,
                   value |-> metadata.v,
                   events |-> <<log_stage("EXTRACT", "SUCCESS", input_id,
                                          [teams_found |-> GetOr(metadata.v, "teams", "empty"),
                                           players_found |-> GetOr(metadata.v, "players", "empty"),
                                           competition |-> GetOr(metadata.v, "competition", "N/A")])>>]

\* ---------------------------------------------------------- generator.py
\* HeadlineGenerator._build_generation_prompt: the exception it raises, or NoExc
_build_generation_prompt(content, metadata, content_type) ==
  LET teams == GetOr(metadata, "teams", "empty")
      players == GetOr(metadata, "players", "empty")
  IN IF ShapeTruthy(teams) /\ JoinRaises(teams)
       THEN Exc("TypeError", "sequence item 0: expected str instance")
     ELSE IF ShapeTruthy(players) /\ (SliceRaises(players) \/ JoinRaises(players))
       THEN Exc("TypeError", "sequence item 0: expected str instance")
     ELSE IF content = NONE
       THEN Exc("TypeError", "'NoneType' object is not subscriptable")
     ELSE NoExc

\* HeadlineGenerator.generate: [ok, value | exc, events]
generate(content, metadata, content_type, input_id, reply) ==
  LET fail(e) == StageFailure("GENERATE", input_id, e,
                              "Failed to parse headline generation response",
                              "Headline generation failed")
      ep == _build_generation_prompt(content, metadata, content_type)
      e0 == ReplyFailure(reply, "headline generation for " \o input_id)
  IN IF Raised(ep) THEN [ok |-> FALSE, exc |-> ep, events |-> <<>>]
     ELSE IF Raised(e0) THEN fail(e0)
     ELSE LET headlines == reply.value
              e1 == validate_dict_keys(headlines,
                                       {"neutral", "fan_oriented", "casual_viewer"},
                                       "Headline generation result")
          IN IF Raised(e1) THEN fail(e1)
             ELSE [ok |-> TRUE,
                   value |-> headlines.v,
                   events |-> <<log_stage("GENERATE", "SUCCESS", input_id,
                                          [headline_count |-> 3])>>]

\* ------------------------------------------------------------- router.py
\* the content of a file whose json.dump did not finish
PARTIAL == [partial |-> TRUE]

\* open(file_path, 'w') then write: the directory with the file created or
\* replaced
WriteFile(dir, name, data) ==
  [n \in (DOMAIN dir) \cup {name} |-> IF n = name THEN data ELSE dir[n]]

\* ContentRouter.route: [ok, value | exc, events, files].  t_iso and t_name
\* are the two readings of the clock; io is what the file system does:
\* "ok", "open_fail" (open raises, nothing is created) or "write_fail"
\* (json.dump raises after open has created or truncated the file).
route(fs, input_id, content_type, original_content, classification, metadata, headlines, t_iso, t_name, io) ==
  LET dir_name == GetOr(CONTENT_TYPE_DIRS, content_type, "other")
      output_package ==
        [input_id |-> input_id,
         processed_at |-> t_iso,
         content_type |-> content_type,
         classification |-> classification,
         metadata |-> metadata,
         headlines |-> headlines,
         original_content |-> original_content,
         pipeline_version |-> "1.0"]
      filename == input_id \o "_" \o ToString(Second(t_name)) \o ".json"
      file_path == OUTPUT_DIR \o "/" \o dir_name \o "/" \o filename
      fail(e, fs2) ==
        [ok |-> FALSE, exc |-> Wrap("Routing failed", e),
         events |-> <<log_error(input_id, "ROUTE", e)>>, files |-> fs2]
  IN CASE io = "open_fail" ->
            fail(Exc("OSError", "cannot open " \o file_path), fs)
       [] io = "write_fail" ->
            fail(Exc("OSError", "cannot write " \o file_path),
                 [fs EXCEPT ![dir_name] = WriteFile(@, filename, PARTIAL)])
       [] io = "ok" ->
            [ok |-> TRUE, value |-> file_path,
             events |-> <<log_stage("ROUTE", "SUCCESS", input_id,
                                    [destination |-> dir_name, output_file |-> file_path])>>,
             files |-> [fs EXCEPT ![dir_name] = WriteFile(@, filename, output_package)]]

\* get_routing_stats counting only the files that hold a whole record
get_routing_stats_WholeRecords(fs) ==
  [content_type \in DOMAIN CONTENT_TYPE_DIRS |->
     Cardinality({n \in DOMAIN fs[CONTENT_TYPE_DIRS[content_type]] :
                    fs[CONTENT_TYPE_DIRS[content_type]][n] # PARTIAL})]

\* get_routing_stats listing only the types to which something was routed
get_routing_stats_NonEmptyOnly(fs) ==
  [content_type \in {ct \in DOMAIN CONTENT_TYPE_DIRS : fs[CONTENT_TYPE_DIRS[ct]] # <<>>} |->
     Cardinality(DOMAIN fs[CONTENT_TYPE_DIRS[content_type]])]

\* ContentRouter.get_routing_stats: the number of .json files of each directory
get_routing_stats(fs) ==
  [content_type \in DOMAIN CONTENT_TYPE_DIRS |->
     Cardinality(DOMAIN fs[CONTENT_TYPE_DIRS[content_type]])]
\* ------------------------------------------------------------ the inputs
\* the items a caller submits: dicts with keys 'content', 'input_id', 'source',
\* any of which may be absent
Items ==
  { [content |-> "text", input_id |-> "a", source |-> "test_suite"],
    [content |-> "text"],
    [input_id |-> "b"] }

\* the batches of at most n items
Batches(n) == UNION {[1..k -> Items] : k \in 0..n}

Classification(content_type) ==
  [content_type |-> content_type, confidence |-> "0.9", reasoning |-> "r"]

\* replies of the collaborator to the classification prompt
ClassifyReplies ==
  { Unparsed("empty"),
    Parsed("dict", [content_type |-> "other"]),
    Parsed("dict", Classification("bogus")),
    Parsed("dict", Classification("match_report")),
    Parsed("dict", Classification("other")) }

\* replies of the collaborator to the extraction prompt
ExtractReplies ==
  { Unparsed("no_json"),
    Parsed("list", [len |-> 0]),
    Parsed("dict", [teams |-> "null", players |-> "strs", sentiment |-> "neutral"]),
    Parsed("dict", [teams |-> "strs", players |-> "objs", sentiment |-> "neutral"]),
    Parsed("dict", [teams |-> "strs", players |-> "strs", sentiment |-> "neutral"]) }

\* replies of the collaborator to the headline prompt
GenerateReplies ==
  { ApiFailure("JSONDecodeError"),
    Parsed("dict", [neutral |-> "n", fan_oriented |-> "f"]),
    Parsed("dict", [neutral |-> "n", fan_oriented |-> "f", casual_viewer |-> "c"]) }

\* the readings of the clock a call of route may get after the reading t: the
\* clock has not moved, or has moved on by a tick
Later(t) == {u \in {t, t + 1} : u <= MaxTime}

\* what the file system does to one write
IOOutcomes == {"ok", "open_fail", "write_fail"}

\* content types a caller passes to router.route directly
RouteTypes == {"match_report", "unmapped"}

\* --------------------------------------------------------------- the state
VARIABLES
  now,          \* the clock, in ticks
  files,        \* files[d]: file name -> content, for each output directory d
  log,          \* the entries pipeline_logger has written since the caller's
                \* current call began, in order
  submitted,    \* how many items the caller has submitted so far
  mode,         \* what the caller is in: "idle", "single" (process), "batch"
  contents,     \* process_batch: its argument
  idx,          \* process_batch: the position of the for loop in contents
  results,      \* process_batch: its results list
  returned,     \* what the last call returned to the caller (and printed)
  pc,           \* process: the position in its body
  frame,        \* process: its local variables
  result,       \* process: the dict it returns
  calls,        \* observation: the stage calls of the current run, in order,
                \* each with its arguments and the collaborator's reply
  filesAtStart, \* observation: files when the current run began
  filesAtCall,  \* observation: files when the caller's current call began
  trace,        \* observation: for each finished item of the batch, its calls
  routed,       \* observation: the route calls that have returned since the
                \* caller's current call began, in order
  response_text,\* extract_json_from_response: its argument
  extracted,    \* extract_json_from_response: what the call made of it
  data,         \* validate_dict_keys: its first argument
  required_keys,\* validate_dict_keys: its second argument
  validated,    \* validate_dict_keys: what the call did
  threads,      \* concurrent calls of route: for each thread, its position
                \* in route and its local variables
  extraction_reply, \* metadata handling: the collaborator's reply to the
                    \* extraction prompt
  extraction_type,  \* metadata handling: the content_type of the item
  extraction_pc,    \* metadata handling: the position of the item between
                    \* extract and the call of the generator's API
  extraction        \* metadata handling: the metadata extract returned, and
                    \* the exception that ended the handling

vars == <<now, files, log, submitted, mode, contents, idx, results, returned,
          pc, frame, result, calls, filesAtStart, filesAtCall, trace, routed,
          response_text, extracted, data, required_keys, validated, threads,
          extraction_reply, extraction_type, extraction_pc, extraction>>

pipelineVars == <<now, files, log, submitted, mode, contents, idx, results, returned,
                  pc, frame, result, calls, filesAtStart, filesAtCall, trace, routed>>

parserVars == <<response_text, extracted>>

validatorVars == <<data, required_keys, validated>>

metadataVars == <<extraction_reply, extraction_type, extraction_pc, extraction>>

\* the threads that call route concurrently
Threads == {1, 2}

\* a thread that is not in route
NoThread == [pc |-> "idle", input_id |-> "", content_type |-> "", processed_at |-> 0,
             filename |-> ""]

callerVars == <<submitted, mode, contents, idx, results, returned, trace, filesAtCall>>

NoFrame == [pc |-> "idle"]
NoResult == [status |-> "none"]
NoReturn == [op |-> "none"]
NotCalled == [called |-> FALSE]

\* the pipeline after construction, before any call
PipelineInit ==
  /\ now = 0
  /\ files = [d \in Dirs |-> <<>>]
  /\ log = <<>>
  /\ submitted = 0
  /\ mode = "idle"
  /\ contents = <<>>
  /\ idx = 0
  /\ results = <<>>
  /\ returned = NoReturn
  /\ pc = "idle"
  /\ frame = NoFrame
  /\ result = NoResult
  /\ calls = <<>>
  /\ filesAtStart = [d \in Dirs |-> <<>>]
  /\ filesAtCall = [d \in Dirs |-> <<>>]
  /\ trace = <<>>
  /\ routed = <<>>

\* validate_dict_keys not called
ValidatorIdle ==
  /\ data = [t |-> "dict", v |-> <<>>]
  /\ required_keys = {}
  /\ validated = NotCalled

\* no metadata being handled
MetadataIdle ==
  /\ extraction_reply = [call |-> "none"]
  /\ extraction_type = ""
  /\ extraction_pc = "idle"
  /\ extraction = [called |-> FALSE]

Init ==
  /\ PipelineInit
  /\ response_text = <<>>
  /\ extracted = NotCalled
  /\ ValidatorIdle
  /\ threads = [th \in Threads |-> NoThread]
  /\ MetadataIdle

\* ---------------------------------------------------- ContentPipeline.process
\* process, lines 58-64: the input_id is generated from the clock when none
\* is given, and the start is logged
Enter(content, input_id, source, written) ==
  LET id == IF Truthy(input_id) THEN input_id ELSE "content_" \o ToString(now)
  IN /\ log' = Append(written, log_start(id, source))
     /\ frame' = [content |-> content, input_id |-> id, source |-> source]
     /\ pc' = "classify"
     /\ result' = NoResult
     /\ calls' = <<>>
     /\ filesAtStart' = files
     /\ UNCHANGED <<now, files>>
     /\ UNCHANGED <<parserVars, validatorVars, threads, metadataVars>>

\* the raise of an exception inside the try block: control goes to the handler
Raise(e) ==
  /\ frame' = [content |-> frame.content, input_id |-> frame.input_id,
               source |-> frame.source, e |-> e]
  /\ pc' = "except"

\* Classify with the failure of the classifier swallowed: the run goes on
\* to the extractor with the type "other"
Classify_SwallowsFailure ==
  /\ pc = "classify"
  /\ \E reply \in ClassifyReplies :
       LET r == classify(frame.content, frame.input_id, reply)
           c == IF r.ok THEN r.value ELSE Classification("other")
       IN /\ log' = log \o r.events
          /\ calls' = Append(calls, [stage |-> "classify", ok |-> r.ok, reply |-> reply,
                                     args |-> [content |-> frame.content,
                                               input_id |-> frame.input_id]])
          /\ frame' = frame @@ [classification |-> c, content_type |-> c.content_type]
          /\ pc' = "extract"
  /\ UNCHANGED <<now, files, result, filesAtStart, routed, callerVars>>
  /\ UNCHANGED <<parserVars, validatorVars, threads, metadataVars>>

\* Classify taking over the classification of the item before it in the
\* batch when that item succeeded
Classify_ReusesPrevious ==
  /\ pc = "classify"
  /\ \E reply \in ClassifyReplies :
       LET r0 == classify(frame.content, frame.input_id, reply)
           r == IF r0.ok /\ results # <<>> /\ results[Len(results)].status = "success"
                  THEN [r0 EXCEPT !.value = results[Len(results)].classification]
                  ELSE r0
       IN /\ log' = log \o r.events
          /\ calls' = Append(calls, [stage |-> "classify", ok |-> r.ok, reply |-> reply,
                                     args |-> [content |-> frame.content,
                                               input_id |-> frame.input_id]])
          /\ IF r.ok
               THEN /\ frame' = frame @@ [classification |-> r.value,
                                          content_type |-> r.value.content_type]
                    /\ pc' = "extract"
               ELSE Raise(r.exc)
  /\ UNCHANGED <<now, files, result, filesAtStart, routed, callerVars>>
  /\ UNCHANGED <<parserVars, validatorVars, threads, metadataVars>>

\* process, lines 73-78
Classify ==
  /\ pc = "classify"
  /\ \E reply \in ClassifyReplies :
       LET r == classify(frame.content, frame.input_id, reply)
       IN /\ log' = log \o r.events
          /\ calls' = Append(calls, [stage |-> "classify", ok |-> r.ok, reply |-> reply,
                                     args |-> [content |-> frame.content,
                                               input_id |-> frame.input_id]])
          /\ IF r.ok
               THEN /\ frame' = frame @@ [classification |-> r.value,
                                          content_type |-> r.value.content_type]
                    /\ pc' = "extract"
               ELSE Raise(r.exc)
  /\ UNCHANGED <<now, files, result, filesAtStart, routed, callerVars>>
  /\ UNCHANGED <<parserVars, validatorVars, threads, metadataVars>>

\* Extract giving the extractor the type "other" whatever the classifier
\* returned
Extract_IgnoresType ==
  /\ pc = "extract"
  /\ \E reply \in ExtractReplies :
       LET r == extract(frame.content, "other", frame.input_id, reply)
       IN /\ log' = log \o r.events
          /\ calls' = Append(calls, [stage |-> "extract", ok |-> r.ok, reply |-> reply,
                                     args |-> [content |-> frame.content,
                                               content_type |-> "other",
                                               input_id |-> frame.input_id]])
          /\ IF r.ok
               THEN /\ frame' = frame @@ [metadata |-> r.value]
                    /\ pc' = "report"
               ELSE Raise(r.exc)
  /\ UNCHANGED <<now, files, result, filesAtStart, routed, callerVars>>
  /\ UNCHANGED <<parserVars, validatorVars, threads, metadataVars>>

\* process, line 83
Extract ==
  /\ pc = "extract"
  /\ \E reply \in ExtractReplies :
       LET r == extract(frame.content, frame.content_type, frame.input_id, reply)
       IN /\ log' = log \o r.events
          /\ calls' = Append(calls, [stage |-> "extract", ok |-> r.ok, reply |-> reply,
                                     args |-> [content |-> frame.content,
                                               content_type |-> frame.content_type,
                                               input_id |-> frame.input_id]])
          /\ IF r.ok
               THEN /\ frame' = frame @@ [metadata |-> r.value]
                    /\ pc' = "report"
               ELSE Raise(r.exc)
  /\ UNCHANGED <<now, files, result, filesAtStart, routed, callerVars>>
  /\ UNCHANGED <<parserVars, validatorVars, threads, metadataVars>>

\* process, lines 85-89: the exception the progress report of the metadata
\* raises, or NoExc; the join of teams and the slice and join of players may
\* raise, the formatting of competition and sentiment does not
print_metadata(metadata) ==
  LET teams == GetOr(metadata, "teams", "empty")
      players == GetOr(metadata, "players", "empty")
  IN IF JoinRaises(teams) \/ SliceRaises(players) \/ JoinRaises(players)
       THEN Exc("TypeError", "sequence item 0: expected str instance")
       ELSE NoExc

\* process, lines 85-89: the progress report of the metadata
ReportMetadata ==
  /\ pc = "report"
  /\ LET e == print_metadata(frame.metadata)
     IN IF Raised(e)
          THEN Raise(e)
          ELSE /\ pc' = "generate"
               /\ frame' = frame
  /\ UNCHANGED <<now, files, log, result, calls, filesAtStart, routed, callerVars>>
  /\ UNCHANGED <<parserVars, validatorVars, threads, metadataVars>>

\* Generate with the failure of the generator swallowed: the run goes on to
\* the router with no headlines
Generate_SwallowsFailure ==
  /\ pc = "generate"
  /\ \E reply \in GenerateReplies :
       LET r == generate(frame.content, frame.metadata, frame.content_type,
                         frame.input_id, reply)
       IN /\ log' = log \o r.events
          /\ calls' = Append(calls, [stage |-> "generate", ok |-> r.ok, reply |-> reply,
                                     args |-> [content |-> frame.content,
                                               metadata |-> frame.metadata,
                                               content_type |-> frame.content_type,
                                               input_id |-> frame.input_id]])
          /\ frame' = frame @@ [headlines |-> IF r.ok THEN r.value ELSE [none |-> TRUE]]
          /\ pc' = "route"
  /\ UNCHANGED <<now, files, result, filesAtStart, routed, callerVars>>
  /\ UNCHANGED <<parserVars, validatorVars, threads, metadataVars>>

\* process, lines 94-99
Generate ==
  /\ pc = "generate"
  /\ \E reply \in GenerateReplies :
       LET r == generate(frame.content, frame.metadata, frame.content_type,
                         frame.input_id, reply)
       IN /\ log' = log \o r.events
          /\ calls' = Append(calls, [stage |-> "generate", ok |-> r.ok, reply |-> reply,
                                     args |-> [content |-> frame.content,
                                               metadata |-> frame.metadata,
                                               content_type |-> frame.content_type,
                                               input_id |-> frame.input_id]])
          /\ IF r.ok
               THEN /\ frame' = frame @@ [headlines |-> r.value]
                    /\ pc' = "route"
               ELSE Raise(r.exc)
  /\ UNCHANGED <<now, files, result, filesAtStart, routed, callerVars>>
  /\ UNCHANGED <<parserVars, validatorVars, threads, metadataVars>>

\* process, lines 104-111
Route ==
  /\ pc = "route"
  /\ \E io \in IOOutcomes, t_iso \in {now} :
       \E t_name \in Later(t_iso) :
         LET r == route(files, frame.input_id, frame.content_type, frame.content,
                        frame.classification, frame.metadata, frame.headlines,
                        t_iso, t_name, io)
         IN /\ now' = t_name
            /\ files' = r.files
            /\ log' = log \o r.events
            /\ calls' = Append(calls, [stage |-> "route", ok |-> r.ok,
                                       args |-> [input_id |-> frame.input_id,
                                                 content_type |-> frame.content_type,
                                                 original_content |-> frame.content,
                                                 classification |-> frame.classification,
                                                 metadata |-> frame.metadata,
                                                 headlines |-> frame.headlines]])
            /\ IF r.ok
                 THEN /\ frame' = frame @@ [output_path |-> r.value]
                      /\ pc' = "complete"
                      /\ routed' = Append(routed, [input_id |-> frame.input_id,
                                                   content_type |-> frame.content_type,
                                                   output_path |-> r.value])
                 ELSE /\ Raise(r.exc)
                      /\ routed' = routed
  /\ UNCHANGED <<result, filesAtStart, callerVars>>
  /\ UNCHANGED <<parserVars, validatorVars, threads, metadataVars>>

\* process, lines 113-130
Complete ==
  /\ pc = "complete"
  /\ log' = Append(log, log_complete(frame.input_id, frame.output_path))
  /\ result' = [input_id |-> frame.input_id,
                status |-> "success",
                classification |-> frame.classification,
                metadata |-> frame.metadata,
                headlines |-> frame.headlines,
                output_path |-> frame.output_path]
  /\ pc' = "done"
  /\ UNCHANGED <<now, files, frame, calls, filesAtStart, routed, callerVars>>
  /\ UNCHANGED <<parserVars, validatorVars, threads, metadataVars>>

\* Except returning None, as the docstring of process describes
Except_ReturnsNone ==
  /\ pc = "except"
  /\ result' = NoResult
  /\ pc' = "done"
  /\ UNCHANGED <<now, files, log, frame, calls, filesAtStart, routed, callerVars>>
  /\ UNCHANGED <<parserVars, validatorVars, threads, metadataVars>>

\* Except never finishing: the handler waits
Except_Hangs ==
  /\ pc = "except"
  /\ UNCHANGED vars

\* Except calling a failed classifier a second time before giving up
Except_RetriesOnce ==
  /\ pc = "except"
  /\ IF Len(calls) = 1 /\ ~calls[1].ok
       THEN /\ pc' = "classify"
            /\ result' = result
       ELSE /\ result' = [input_id |-> frame.input_id,
                          status |-> "failed",
                          error |-> Str(frame.e)]
            /\ pc' = "done"
  /\ UNCHANGED <<now, files, log, frame, calls, filesAtStart, routed, callerVars>>
  /\ UNCHANGED <<parserVars, validatorVars, threads, metadataVars>>

\* Except logging the completion of the run it has caught the failure of
Except_LogsComplete ==
  /\ pc = "except"
  /\ log' = Append(log, log_complete(frame.input_id, NONE))
  /\ result' = [input_id |-> frame.input_id,
                status |-> "failed",
                error |-> Str(frame.e)]
  /\ pc' = "done"
  /\ UNCHANGED <<now, files, frame, calls, filesAtStart, routed, callerVars>>
  /\ UNCHANGED <<parserVars, validatorVars, threads, metadataVars>>

\* Except returning with the failure the classification of the run, when the
\* classifier had returned one
Except_KeepsClassification ==
  /\ pc = "except"
  /\ result' = IF calls[1].ok
                 THEN [input_id |-> frame.input_id,
                       status |-> "failed",
                       error |-> Str(frame.e),
                       classification |-> calls[1].reply.value.v]
                 ELSE [input_id |-> frame.input_id,
                       status |-> "failed",
                       error |-> Str(frame.e)]
  /\ pc' = "done"
  /\ UNCHANGED <<now, files, log, frame, calls, filesAtStart, routed, callerVars>>
  /\ UNCHANGED <<parserVars, validatorVars, threads, metadataVars>>

\* process, lines 132-141
Except ==
  /\ pc = "except"
  /\ result' = [input_id |-> frame.input_id,
                status |-> "failed",
                error |-> Str(frame.e)]
  /\ pc' = "done"
  /\ UNCHANGED <<now, files, log, frame, calls, filesAtStart, routed, callerVars>>
  /\ UNCHANGED <<parserVars, validatorVars, threads, metadataVars>>

\* ------------------------------------------------------------- the caller
\* a call of process(content, input_id, source)
CallProcess ==
  /\ mode = "idle"
  /\ submitted < MaxOps
  /\ \E item \in Items :
       Enter(Get(item, "content"), Get(item, "input_id"), Get(item, "source"), <<>>)
  /\ routed' = <<>>
  /\ mode' = "single"
  /\ submitted' = submitted + 1
  /\ returned' = NoReturn
  /\ contents' = <<>>
  /\ idx' = 0
  /\ results' = <<>>
  /\ trace' = <<>>
  /\ filesAtCall' = files

\* process returns to the caller
ProcessReturn ==
  /\ mode = "single"
  /\ pc = "done"
  /\ returned' = [op |-> "process", value |-> result]
  /\ mode' = "idle"
  /\ pc' = "idle"
  /\ frame' = NoFrame
  /\ UNCHANGED <<now, files, log, submitted, contents, idx, results, result,
                 calls, filesAtStart, filesAtCall, trace, routed>>
  /\ UNCHANGED <<parserVars, validatorVars, threads, metadataVars>>

\* process_batch, lines 153-157
CallProcessBatch ==
  /\ mode = "idle"
  /\ \E cs \in Batches(MaxBatch) :
       /\ submitted + Len(cs) <= MaxOps
       /\ contents' = cs
       /\ submitted' = submitted + Len(cs)
  /\ mode' = "batch"
  /\ results' = <<>>
  /\ idx' = 1
  /\ trace' = <<>>
  /\ returned' = NoReturn
  /\ log' = <<>>
  /\ routed' = <<>>
  /\ result' = NoResult
  /\ calls' = <<>>
  /\ filesAtStart' = files
  /\ filesAtCall' = files
  /\ UNCHANGED <<now, files, pc, frame>>
  /\ UNCHANGED <<parserVars, validatorVars, threads, metadataVars>>

\* BatchCall starting the next item as soon as the run of the current one
\* has ended, before its result is appended
BatchCall_BeforeAppend ==
  /\ mode = "batch"
  /\ pc \in {"idle", "done"}
  /\ LET i == IF pc = "done" THEN idx + 1 ELSE idx
     IN /\ i <= Len(contents)
        /\ Enter(Get(contents[i], "content"), Get(contents[i], "input_id"),
                 Get(contents[i], "source"), log)
        /\ idx' = i
  /\ UNCHANGED <<routed, submitted, mode, contents, results, returned, trace,
                 filesAtCall>>

\* process_batch, lines 159-164: the loop calls process for the next item
BatchCall ==
  /\ mode = "batch"
  /\ pc = "idle"
  /\ idx <= Len(contents)
  /\ LET item == contents[idx]
     IN Enter(Get(item, "content"), Get(item, "input_id"), Get(item, "source"), log)
  /\ UNCHANGED <<routed, callerVars>>

\* BatchAppend leaving the loop after a failed item
BatchAppend_StopsOnFailure ==
  /\ mode = "batch"
  /\ pc = "done"
  /\ results' = Append(results, result)
  /\ trace' = Append(trace, calls)
  /\ idx' = (IF result.status = "success" THEN idx + 1 ELSE Len(contents) + 1)
  /\ pc' = "idle"
  /\ frame' = NoFrame
  /\ UNCHANGED <<now, files, log, submitted, mode, contents, returned, result,
                 calls, filesAtStart, filesAtCall, routed>>
  /\ UNCHANGED <<parserVars, validatorVars, threads, metadataVars>>

\* process_batch, line 165
BatchAppend ==
  /\ mode = "batch"
  /\ pc = "done"
  /\ results' = Append(results, result)
  /\ trace' = Append(trace, calls)
  /\ idx' = idx + 1
  /\ pc' = "idle"
  /\ frame' = NoFrame
  /\ UNCHANGED <<now, files, log, submitted, mode, contents, returned, result,
                 calls, filesAtStart, filesAtCall, routed>>
  /\ UNCHANGED <<parserVars, validatorVars, threads, metadataVars>>

\* number of results with status "success" (line 168)
RECURSIVE CountSuccess(_)
CountSuccess(rs) ==
  IF rs = <<>> THEN 0
  ELSE (IF Get(Head(rs), "status") = "success" THEN 1 ELSE 0) + CountSuccess(Tail(rs))

\* process_batch, lines 167-187
BatchReturn ==
  /\ mode = "batch"
  /\ pc = "idle"
  /\ idx > Len(contents)
  /\ LET successful == CountSuccess(results)
     IN returned' = [op |-> "process_batch",
                     results |-> results,
                     printed |-> [total |-> Len(results),
                                  successful |-> successful,
                                  failed |-> Len(results) - successful,
                                  routing_stats |-> get_routing_stats(files)]]
  /\ mode' = "idle"
  /\ UNCHANGED <<now, files, log, submitted, contents, idx, results, pc, frame,
                 result, calls, filesAtStart, filesAtCall, trace, routed>>
  /\ UNCHANGED <<parserVars, validatorVars, threads, metadataVars>>

\* a call of router.route by a caller other than process
CallRoute ==
  /\ mode = "idle"
  /\ submitted < MaxOps
  /\ \E content_type \in RouteTypes, io \in IOOutcomes, t_iso \in {now} :
       \E t_name \in Later(t_iso) :
         LET r == route(files, "a", content_type, "text",
                        Classification(content_type), <<>>, <<>>, t_iso, t_name, io)
         IN /\ now' = t_name
            /\ files' = r.files
            /\ log' = r.events
            /\ IF r.ok
                 THEN /\ returned' = [op |-> "route", path |-> r.value]
                      /\ routed' = Append(<<>>, [input_id |-> "a",
                                                   content_type |-> content_type,
                                                   output_path |-> r.value])
                 ELSE /\ returned' = [op |-> "route", raised |-> r.exc]
                      /\ routed' = <<>>
  /\ submitted' = submitted + 1
  /\ contents' = <<>>
  /\ idx' = 0
  /\ results' = <<>>
  /\ trace' = <<>>
  /\ result' = NoResult
  /\ calls' = <<>>
  /\ filesAtStart' = files
  /\ filesAtCall' = files
  /\ UNCHANGED <<mode, pc, frame>>
  /\ UNCHANGED <<parserVars, validatorVars, threads, metadataVars>>

\* a call of router.get_routing_stats by a caller
CallGetRoutingStats ==
  /\ mode = "idle"
  /\ returned' = [op |-> "get_routing_stats", value |-> get_routing_stats(files)]
  /\ UNCHANGED <<now, files, log, submitted, mode, contents, idx, results, pc,
                 frame, result, calls, filesAtStart, filesAtCall, trace, routed>>
  /\ UNCHANGED <<parserVars, validatorVars, threads, metadataVars>>

Next ==
  \/ CallProcess
  \/ ProcessReturn
  \/ CallProcessBatch
  \/ BatchCall
  \/ BatchAppend
  \/ BatchReturn
  \/ CallRoute
  \/ CallGetRoutingStats
  \/ Classify
  \/ Extract
  \/ ReportMetadata
  \/ Generate
  \/ Route
  \/ Complete
  \/ Except

Spec == Init /\ [][Next]_vars

\* the steps process and process_batch take by themselves, once called: each
\* is a statement of a sequential program, or a blocking call of a stage or
\* of the router that returns or raises
Step ==
  \/ ProcessReturn
  \/ BatchCall
  \/ BatchAppend
  \/ BatchReturn
  \/ Classify
  \/ Extract
  \/ ReportMetadata
  \/ Generate
  \/ Route
  \/ Complete
  \/ Except

\* the pipeline when every call of a collaborator and of the file system
\* comes back: a step that can be taken is taken
FairSpec == Init /\ [][Next]_vars /\ WF_vars(Step)

\* ------------------------------------ extract_json_from_response, by itself
\* the characters of the texts given to extract_json_from_response
Chars == {"{", "}", "[", "]", "1", "\"", " ", "\n", BACKTICK, "s"}

\* the texts of at most n characters
Texts(n) == UNION {[1..k -> Chars] : k \in 0..n}

\* JSON payloads: the texts of at most MaxPayload characters that json.loads
\* accepts, an object with a member, a list of two, and a string of backticks
Payloads ==
  {p \in Texts(MaxPayload) : json_loads(p).ok}
    \cup { <<"{", "\"", "s", "\"", ":", "1", "}">>,
           <<"[", "1", ",", "1", "]">>,
           <<"\"", BACKTICK, BACKTICK, BACKTICK, "\"">> }

\* the language tags of an opening fence: none, json, another one
Tags == {<<>>, JSON_TAG, <<"s">>}

\* a payload in a fenced block: the fences on lines of their own
Fenced(payload, tag) == FENCE \o tag \o <<"\n">> \o payload \o FENCE_CLOSE

\* what a first fenced block holds, and what follows the block on the lines
\* after it: a closing bracket, a list, a second fenced block
Bodies == {<<"s">>, <<"1">>, <<"[">>}
Followers == {<<"]">>, <<"[", "]">>, Fenced(<<"1">>, <<>>), Fenced(<<"s">>, <<>>)}

\* a fenced block and the text that follows it
FencedThen ==
  {Fenced(p, tag) \o <<"\n">> \o f : p \in Bodies, tag \in {<<>>, JSON_TAG}, f \in Followers}

\* the replies of a collaborator: any short text, a fenced payload, or a
\* fenced block followed by more text
ResponseTexts ==
  Texts(MaxLen) \cup {Fenced(p, tag) : p \in Payloads, tag \in Tags} \cup FencedThen

ParserInit ==
  /\ PipelineInit
  /\ response_text \in ResponseTexts
  /\ extracted = NotCalled
  /\ ValidatorIdle
  /\ threads = [th \in Threads |-> NoThread]
  /\ MetadataIdle

\* a call of extract_json_from_response(response_text)
ExtractJson ==
  /\ extracted = NotCalled
  /\ extracted' = extract_json_from_response(response_text)
  /\ UNCHANGED <<response_text, pipelineVars, validatorVars, threads, metadataVars>>

ParserNext == ExtractJson

ParserSpec == ParserInit /\ [][ParserNext]_vars

\* ------------------------------------------------ validate_dict_keys, by itself
\* the keys validate_dict_keys requires of a classification (classifier.py)
ClassificationKeys == {"content_type", "confidence", "reasoning"}

\* the keys of the values given to validate_dict_keys, and what they hold
Keys == {"content_type", "confidence", "reasoning", "extra"}
Held == {"a", "b"}

\* the values given to validate_dict_keys: the dicts over Keys, and values
\* that are not dicts
Values ==
  {[t |-> "dict", v |-> f] : f \in UNION {[ks -> Held] : ks \in SUBSET Keys}}
    \cup {[t |-> "list", v |-> <<>>], [t |-> "str", v |-> <<>>],
          [t |-> "NoneType", v |-> <<>>]}

ValidatorInit ==
  /\ PipelineInit
  /\ response_text = <<>>
  /\ extracted = NotCalled
  /\ data \in Values
  /\ required_keys \in SUBSET ClassificationKeys
  /\ validated = NotCalled
  /\ threads = [th \in Threads |-> NoThread]
  /\ MetadataIdle

\* a call of validate_dict_keys(data, required_keys); nothing in the
\* function assigns to data or to required_keys
ValidateDictKeys ==
  /\ validated = NotCalled
  /\ validated' = [called |-> TRUE,
                   exc |-> validate_dict_keys(data, required_keys, "data"),
                   given |-> data]
  /\ UNCHANGED <<data, required_keys, pipelineVars, parserVars, threads, metadataVars>>

ValidatorNext == ValidateDictKeys

ValidatorSpec == ValidatorInit /\ [][ValidatorNext]_vars

\* ------------------------------------- ContentRouter.route, called concurrently
\* Two item runs in parallel reach route at the same time; the steps of route
\* in the two threads interleave.  The router keeps no counter in memory: the
\* counts are the files of the directories.
RouteIds == {"a", "b"}

\* the content of a file two threads have written to at once, one over the
\* text of the other
MIXED == [mixed |-> TRUE]

\* the record a thread writes (router.py:65-74), the stage outputs left out
ThreadPackage(th) ==
  [input_id |-> threads[th].input_id,
   processed_at |-> threads[th].processed_at,
   content_type |-> threads[th].content_type,
   pipeline_version |-> "1.0"]

ThreadDir(th) == GetOr(CONTENT_TYPE_DIRS, threads[th].content_type, "other")

\* the two runs come to route, each with its input_id and content_type
Fork ==
  /\ \A th \in Threads : threads[th].pc = "idle"
  /\ \E ids \in [Threads -> RouteIds], types \in [Threads -> {"match_report", "other"}] :
       threads' = [th \in Threads |->
                     [NoThread EXCEPT !.pc = "package", !.input_id = ids[th],
                                      !.content_type = types[th]]]
  /\ filesAtCall' = files
  /\ log' = <<>>
  /\ UNCHANGED <<now, files, submitted, mode, contents, idx, results, returned, pc,
                 frame, result, calls, filesAtStart, trace, routed>>
  /\ UNCHANGED <<parserVars, validatorVars, metadataVars>>

\* the clock moves on while threads are in route
Tick ==
  /\ \E th \in Threads : threads[th].pc \in {"package", "name", "open", "dump"}
  /\ now < MaxTime
  /\ now' = now + 1
  /\ UNCHANGED <<files, log, submitted, mode, contents, idx, results, returned, pc,
                 frame, result, calls, filesAtStart, filesAtCall, trace, routed>>
  /\ UNCHANGED <<parserVars, validatorVars, threads, metadataVars>>

\* route, lines 60-74: the directory and the package, stamped with the clock
RoutePackage(th) ==
  /\ threads[th].pc = "package"
  /\ threads' = [threads EXCEPT ![th].processed_at = now, ![th].pc = "name"]
  /\ UNCHANGED <<pipelineVars, parserVars, validatorVars, metadataVars>>

\* route, lines 77-79: the file name, from the input_id and the clock
RouteName(th) ==
  /\ threads[th].pc = "name"
  /\ threads' = [threads EXCEPT
                   ![th].filename = threads[th].input_id \o "_"
                                      \o ToString(Second(now)) \o ".json",
                   ![th].pc = "open"]
  /\ UNCHANGED <<pipelineVars, parserVars, validatorVars, metadataVars>>

\* route, line 82: open(file_path, 'w') creates the file or empties it; when
\* it raises, the handler logs the error and raises (lines 97-100)
RouteOpen(th) ==
  /\ threads[th].pc = "open"
  /\ \E io \in {"ok", "open_fail"} :
       IF io = "ok"
         THEN /\ files' = [files EXCEPT ![ThreadDir(th)] =
                                          WriteFile(@, threads[th].filename, PARTIAL)]
              /\ threads' = [threads EXCEPT ![th].pc = "dump"]
              /\ log' = log
         ELSE /\ files' = files
              /\ threads' = [threads EXCEPT ![th].pc = "raised"]
              /\ log' = Append(log, log_error(threads[th].input_id, "ROUTE",
                                              Exc("OSError", "cannot open")))
  /\ UNCHANGED <<now, submitted, mode, contents, idx, results, returned, pc,
                 frame, result, calls, filesAtStart, filesAtCall, trace, routed>>
  /\ UNCHANGED <<parserVars, validatorVars, metadataVars>>

\* route, lines 83-95: json.dump and the close of the file, the log entry and
\* the return of the path.  When the other thread has written to the same
\* file since this thread opened it, the file ends as this thread's record or
\* as a mix of the two texts.
RouteDump(th) ==
  /\ threads[th].pc = "dump"
  /\ LET dir == ThreadDir(th)
         name == threads[th].filename
         written == {ThreadPackage(th)}
                      \cup (IF files[dir][name] # PARTIAL THEN {MIXED} ELSE {})
     IN \E io \in {"ok", "write_fail"} :
          IF io = "ok"
            THEN /\ \E w \in written :
                      files' = [files EXCEPT ![dir] = WriteFile(@, name, w)]
                 /\ threads' = [threads EXCEPT ![th].pc = "returned"]
                 /\ log' = Append(log, log_stage("ROUTE", "SUCCESS", threads[th].input_id,
                                                 [destination |-> dir, output_file |-> name]))
            ELSE /\ files' = files
                 /\ threads' = [threads EXCEPT ![th].pc = "raised"]
                 /\ log' = Append(log, log_error(threads[th].input_id, "ROUTE",
                                                 Exc("OSError", "cannot write")))
  /\ UNCHANGED <<now, submitted, mode, contents, idx, results, returned, pc,
                 frame, result, calls, filesAtStart, filesAtCall, trace, routed>>
  /\ UNCHANGED <<parserVars, validatorVars, metadataVars>>

ConcurrentNext ==
  \/ Fork
  \/ Tick
  \/ \E th \in Threads : RoutePackage(th)
  \/ \E th \in Threads : RouteName(th)
  \/ \E th \in Threads : RouteOpen(th)
  \/ \E th \in Threads : RouteDump(th)

ConcurrentSpec == Init /\ [][ConcurrentNext]_vars

\* ------------------------------------ the metadata, from extract to the prompt
\* One item between the call of extract and the call of the generator's API:
\* extract (main.py:83), the progress report (main.py:85-89) and the building
\* of the generation prompt (generator.py:54), for every reply the extraction
\* instruction allows and some it does not.

\* a dict holding the key with one of the values, or not holding it
Opt(key, values) == {<<>>} \cup {(key :> v) : v \in values}

\* what competition and sentiment hold: null, an empty list, or a string
CompetitionValues == {"null", "empty", "Premier League"}
SentimentValues == {"null", "empty", "neutral"}

\* what key_stats holds: null, an empty dict, or a dict of the shape the
\* instruction of a content type asks for
KeyStatsValues == {"null", "empty", "match_report", "transfer_news"}

\* the JSON objects a reply to the extraction prompt may hold
Metadatas ==
  {t @@ p @@ c @@ s @@ k :
     t \in Opt("teams", Shapes), p \in Opt("players", Shapes),
     c \in Opt("competition", CompetitionValues),
     s \in Opt("sentiment", SentimentValues),
     k \in Opt("key_stats", KeyStatsValues)}

\* replies of the collaborator to the extraction prompt: a JSON object, a
\* list, a scalar, a text with no JSON in it, a failed call
MetadataReplies ==
  {Parsed("dict", m) : m \in Metadatas}
    \cup {Parsed(t, [len |-> 0]) : t \in {"list", "str", "int", "NoneType"}}
    \cup {Unparsed("no_json"), ApiFailure("APIError")}

\* the content types of the items
MetadataTypes == {"match_report", "transfer_news", "other"}

MetadataInit ==
  /\ PipelineInit
  /\ response_text = <<>>
  /\ extracted = NotCalled
  /\ ValidatorIdle
  /\ threads = [th \in Threads |-> NoThread]
  /\ extraction_reply \in MetadataReplies
  /\ extraction_type \in MetadataTypes
  /\ extraction_pc = "extract"
  /\ extraction = [called |-> FALSE]

\* the handling ends with the exception e raised at the place at
MetadataRaise(at, e) ==
  /\ extraction_pc' = "failed"
  /\ extraction' = [extraction EXCEPT !.exc = e, !.at = at]

\* process, line 83: extract returns the metadata or raises
ExtractMetadata ==
  /\ extraction_pc = "extract"
  /\ LET r == extract("text", extraction_type, "a", extraction_reply)
     IN IF r.ok
          THEN /\ extraction_pc' = "report"
               /\ extraction' = [called |-> TRUE, metadata |-> r.value,
                                 exc |-> NoExc, at |-> ""]
          ELSE /\ extraction_pc' = "failed"
               /\ extraction' = [called |-> TRUE, exc |-> r.exc, at |-> "extract"]
  /\ UNCHANGED <<extraction_reply, extraction_type>>
  /\ UNCHANGED <<pipelineVars, parserVars, validatorVars, threads>>

\* process, lines 85-89: the progress report
PrintMetadata ==
  /\ extraction_pc = "report"
  /\ LET e == print_metadata(extraction.metadata)
     IN IF Raised(e)
          THEN MetadataRaise("report", e)
          ELSE /\ extraction_pc' = "prompt"
               /\ extraction' = extraction
  /\ UNCHANGED <<extraction_reply, extraction_type>>
  /\ UNCHANGED <<pipelineVars, parserVars, validatorVars, threads>>

\* generate, line 54: the generation prompt is built from the metadata
BuildGenerationPrompt ==
  /\ extraction_pc = "prompt"
  /\ LET e == _build_generation_prompt("text", extraction.metadata, extraction_type)
     IN IF Raised(e)
          THEN MetadataRaise("prompt", e)
          ELSE /\ extraction_pc' = "built"
               /\ extraction' = extraction
  /\ UNCHANGED <<extraction_reply, extraction_type>>
  /\ UNCHANGED <<pipelineVars, parserVars, validatorVars, threads>>

MetadataNext ==
  \/ ExtractMetadata
  \/ PrintMetadata
  \/ BuildGenerationPrompt

MetadataSpec == MetadataInit /\ [][MetadataNext]_vars

\* ------------------------------------------------------- the run's state
\* the state of the run of section 4.4 that a position in process stands for
RunState ==
  CASE pc = "idle"     -> "NONE"
    [] pc = "classify" -> "START"
    [] pc = "extract"  -> "CLASSIFIED"
    [] pc = "report"   -> "EXTRACTED"
    [] pc = "generate" -> "EXTRACTED"
    [] pc = "route"    -> "GENERATED"
    [] pc = "complete" -> "ROUTED"
    [] pc = "except"   -> "FAILED"
    [] pc = "done"     -> IF result.status = "success" THEN "COMPLETE" ELSE "FAILED"

Forward == <<"START", "CLASSIFIED", "EXTRACTED", "GENERATED", "ROUTED", "COMPLETE">>

Rank(st) == CHOOSE i \in 1..Len(Forward) : Forward[i] = st

StageOrder == <<"classify", "extract", "generate", "route">>

AllOk(cs) == \A i \in 1..Len(cs) : cs[i].ok

SomeStageFailed(cs) == \E i \in 1..Len(cs) : ~cs[i].ok

InRange(f) == {f[x] : x \in DOMAIN f}

RECURSIVE SumOver(_, _)
SumOver(f, S) ==
  IF S = {} THEN 0
  ELSE LET x == CHOOSE y \in S : TRUE IN f[x] + SumOver(f, S \ {x})

\* the sum of the counts of a stats mapping
Total(stats) == SumOver(stats, DOMAIN stats)

\* the key of get_routing_stats under which a record of this type is counted
BucketKey(content_type) ==
  IF content_type \in DOMAIN CONTENT_TYPE_DIRS THEN content_type ELSE "other"

\* this step is a call of route returning a path
RouteReturns ==
  \/ pc = "route" /\ pc' = "complete"
  \/ /\ mode = "idle"
     /\ submitted' = submitted + 1
     /\ returned'.op = "route"
     /\ "path" \in DOMAIN returned'

\* -------------------------------------------------------------- properties
\* C1: in every run the stages are called in the order classify, extract,
\* generate, route, each only after all earlier ones returned successfully
\* and none skipped, and the run's state moves one step forward along
\* START, CLASSIFIED, EXTRACTED, GENERATED, ROUTED, COMPLETE or jumps from a
\* non-terminal state to FAILED.
C1_StrictStageOrder ==
  [][ /\ Len(calls') <= Len(StageOrder)
      /\ \A i \in 1..Len(calls') :
           /\ calls'[i].stage = StageOrder[i]
           /\ i < Len(calls') => calls'[i].ok
      /\ RunState' \in InRange(Forward) =>
           /\ AllOk(calls')
           /\ Len(calls') = (IF Rank(RunState') <= 4 THEN Rank(RunState') - 1 ELSE 4)
      /\ RunState' # RunState =>
           \/ RunState = "NONE" /\ RunState' = "START"
           \/ RunState \in {"COMPLETE", "FAILED"} /\ RunState' = "NONE"
           \/ /\ RunState \in InRange(Forward) \ {"COMPLETE"}
              /\ \/ RunState' = "FAILED"
                 \/ /\ RunState' \in InRange(Forward)
                    /\ Rank(RunState') = Rank(RunState) + 1
    ]_vars

C1_Witness ==
  /\ RunState = "COMPLETE"
  /\ Len(calls) = 4
  /\ AllOk(calls)

\* C2: when classify, extract or generate has failed in a run, route is not
\* called in that run and every directory holds what it held when the run
\* began, so every count is the same.
C2_NoRouteAfterFailure ==
  (\E i \in 1..Len(calls) :
      calls[i].stage \in {"classify", "extract", "generate"} /\ ~calls[i].ok)
  => /\ \A j \in 1..Len(calls) : calls[j].stage # "route"
     /\ files = filesAtStart
     /\ get_routing_stats(files) = get_routing_stats(filesAtStart)

C2_Witness ==
  /\ pc = "done"
  /\ Len(calls) = 3
  /\ calls[3].stage = "generate"
  /\ ~calls[3].ok
  /\ \E d \in Dirs : files[d] # <<>>

C4_EveryItemClassified ==
  returned.op = "process_batch" =>
    /\ Len(trace) = Len(contents)
    /\ \A i \in 1..Len(contents) :
         /\ Len(trace[i]) >= 1
         /\ trace[i][1].stage = "classify"
         /\ trace[i][1].args.content = Get(contents[i], "content")

C4_Witness ==
  /\ returned.op = "process_batch"
  /\ Len(contents) = 2
  /\ ~trace[1][1].ok
  /\ trace[2][1].ok

\* C5: process_batch over n items returns n results in the order of
\* submission, result i carrying the input_id supplied for item i, with
\* status "failed" exactly for the items one of whose stages failed.
C5_FailedIffStageFailed ==
  returned.op = "process_batch" =>
    /\ Len(returned.results) = Len(contents)
    /\ \A i \in 1..Len(contents) :
         /\ Truthy(Get(contents[i], "input_id")) =>
              returned.results[i].input_id = contents[i].input_id
         /\ returned.results[i].status \in {"success", "failed"}
         /\ returned.results[i].status = "failed" <=> SomeStageFailed(trace[i])

\* C6: after a batch that began with every directory empty, the sum of the
\* counts of get_routing_stats is the number of results with status
\* "success".
C6_StatsSumIsSuccesses ==
  (/\ returned.op = "process_batch"
   /\ \A d \in Dirs : filesAtCall[d] = <<>>)
  => Total(returned.printed.routing_stats) = returned.printed.successful

\* C7: a call of route that returns raises the count of the record's bucket
\* by exactly 1 and leaves every other count as it was.
C7_RouteCountsOne ==
  [][ RouteReturns =>
        LET key == BucketKey(routed'[Len(routed')].content_type)
        IN \A ct \in DOMAIN CONTENT_TYPE_DIRS :
             get_routing_stats(files')[ct] =
               get_routing_stats(files)[ct] + (IF ct = key THEN 1 ELSE 0)
    ]_vars

\* C8: an item whose result is "failed" has left nothing, whole or
\* half-written, in any directory and has changed no count.
C8_FailedLeavesNothing ==
  (pc = "done" /\ result.status = "failed") => files = filesAtStart

\* C9: a record that route has written is never changed, replaced or
\* removed afterwards.
C9_RecordsNeverChange ==
  [][ \A d \in Dirs : \A n \in DOMAIN files[d] :
        files[d][n] # PARTIAL =>
          /\ n \in DOMAIN files'[d]
          /\ files'[d][n] = files[d][n]
    ]_vars

\* C10: no count of get_routing_stats is ever lower than it was before: no
\* step lowers or resets a count, and what a caller is given is the current
\* count, not lower than the count when the caller's previous call began.
C10_CountsNeverDecrease ==
  [][ /\ \A ct \in DOMAIN CONTENT_TYPE_DIRS :
           get_routing_stats(files')[ct] >= get_routing_stats(files)[ct]
      /\ returned'.op = "get_routing_stats" =>
           \A ct \in DOMAIN CONTENT_TYPE_DIRS :
             /\ returned'.value[ct] = get_routing_stats(files')[ct]
             /\ returned'.value[ct] >= get_routing_stats(filesAtCall')[ct]
    ]_vars

C10_Witness ==
  /\ returned.op = "get_routing_stats"
  /\ returned.value["match_report"] = 2
  /\ \E n \in DOMAIN files["match_reports"] : files["match_reports"][n] = PARTIAL

\* C11: a call of route that returns for a content_type that is no key of
\* CONTENT_TYPE_DIRS has written the record into the directory "other", and
\* the count under the key "other" is 1 higher than before the call.
C11_UnmappedCountedUnderOther ==
  [][ (/\ RouteReturns
       /\ routed'[Len(routed')].content_type \notin DOMAIN CONTENT_TYPE_DIRS)
      => /\ \E n \in DOMAIN files'["other"] :
              /\ files'["other"][n] # PARTIAL
              /\ files'["other"][n].input_id = routed'[Len(routed')].input_id
              /\ files'["other"][n].content_type = routed'[Len(routed')].content_type
         /\ get_routing_stats(files')["other"] = get_routing_stats(files)["other"] + 1
    ]_vars

\* C12: get_routing_stats always gives a mapping whose keys are exactly the
\* five content types, each with a count that is a natural number, also for
\* the types to which nothing was routed; so does what a caller was given.
C12_StatsCoverEveryType ==
  LET WellFormed(stats) ==
        /\ DOMAIN stats = valid_types
        /\ \A ct \in valid_types : stats[ct] \in Nat
  IN /\ WellFormed(get_routing_stats(files))
     /\ returned.op = "get_routing_stats" => WellFormed(returned.value)
     /\ returned.op = "process_batch" => WellFormed(returned.printed.routing_stats)

C12_Witness ==
  /\ returned.op = "get_routing_stats"
  /\ returned.value["other"] = 1
  /\ returned.value["match_report"] = 1
  /\ returned.value["transfer_news"] = 0

\* the reply parsed to a JSON object
IsDictReply(reply) ==
  /\ reply.call = "ok"
  /\ reply.parse = "ok"
  /\ reply.value.t = "dict"

\* the run in calls ended in the classifier: nothing was called after it, the
\* item is failed and no directory has changed
EndedInClassify ==
  /\ ~calls[1].ok
  /\ Len(calls) = 1
  /\ pc \in {"except", "done", "idle"}
  /\ pc # "except" => result.status = "failed"
  /\ files = filesAtStart
  /\ get_routing_stats(files) = get_routing_stats(filesAtStart)

\* C13: a classification reply that is a mapping with all required keys and
\* a content_type outside the five values makes classify fail: no
\* classification is produced (the type is not taken for "other"), the item
\* is failed, and extract, generate and route are not called.
C13_InvalidTypeFailsItem ==
  (/\ Len(calls) >= 1
   /\ IsDictReply(calls[1].reply)
   /\ ClassificationKeys \subseteq DOMAIN calls[1].reply.value.v
   /\ calls[1].reply.value.v.content_type \notin valid_types)
  => /\ EndedInClassify
     /\ "classification" \notin DOMAIN frame
     /\ "content_type" \notin DOMAIN frame
     /\ pc # "except" => result.error.msg =
            "Classification failed: Invalid content_type: "
              \o calls[1].reply.value.v.content_type

C13_Witness ==
  /\ pc = "done"
  /\ calls[1].reply = Parsed("dict", Classification("bogus"))
  /\ result.status = "failed"

\* C14: an empty (or all-whitespace) classification reply fails the item
\* with the parser's empty-response error as its error, the failure is
\* logged as a ValueError of the CLASSIFY stage, route is not called and no
\* count changes.
C14_EmptyReplyFailsItem ==
  (Len(calls) >= 1 /\ calls[1].reply = Unparsed("empty"))
  => /\ EndedInClassify
     /\ log[Len(log)] =
          log_error(calls[1].args.input_id, "CLASSIFY",
                    Exc("ValueError", "Empty response received for classification for "
                                        \o calls[1].args.input_id))
     /\ pc # "except" => result.error.msg =
            "Classification failed: Empty response received for classification for "
              \o calls[1].args.input_id

C14_Witness ==
  /\ pc = "done"
  /\ calls[1].reply = Unparsed("empty")
  /\ result.status = "failed"
  /\ \E d \in Dirs : files[d] # <<>>

\* C15: a classification reply that is a mapping lacking required keys fails
\* the item with the validator's error, which names exactly the missing keys
\* as missing; no later stage is called.
C15_MissingKeysFailItem ==
  (/\ Len(calls) >= 1
   /\ IsDictReply(calls[1].reply)
   /\ ~(ClassificationKeys \subseteq DOMAIN calls[1].reply.value.v))
  => /\ EndedInClassify
     /\ log[Len(log)].details.error_type = "ValueError"
     /\ pc # "except" =>
          /\ result.error.msg =
               "Classification failed: Classification result missing required keys"
          /\ result.error.missing =
               ClassificationKeys \ DOMAIN calls[1].reply.value.v

C15_Witness ==
  /\ pc = "done"
  /\ result.status = "failed"
  /\ result.error.missing = {"confidence", "reasoning"}

\* each stage occurs at most once in a run's calls, and the run began with
\* the classifier
OncePerStage(cs) ==
  /\ \A i, j \in 1..Len(cs) : cs[i].stage = cs[j].stage => i = j
  /\ Cardinality({i \in 1..Len(cs) : cs[i].stage # "route"}) <= 3
  /\ cs # <<>> => cs[1].stage = "classify"

\* C16: within a run each of classify, extract, generate and route is called
\* at most once (at most three calls of the collaborator), a failed run is
\* not taken up again, and a run of an item processed again starts at the
\* classifier with nothing kept from the earlier run.
C16_NoRetryNoResume ==
  /\ OncePerStage(calls)
  /\ \A k \in 1..Len(trace) : OncePerStage(trace[k])
  /\ pc = "classify" =>
       /\ calls = <<>>
       /\ DOMAIN frame = {"content", "input_id", "source"}
       /\ result = NoResult

C16_Witness ==
  /\ mode = "batch"
  /\ idx = 2
  /\ Len(contents) = 2
  /\ contents[2] = contents[1]
  /\ Len(trace) = 1
  /\ Len(trace[1]) = 3
  /\ ~trace[1][3].ok
  /\ pc = "extract"
  /\ Len(calls) = 1

\* C17: for a text that is valid JSON, with or without whitespace around it,
\* extract_json_from_response returns the value json.loads gives for the
\* text, from the direct attempt alone: no fence or marker strategy is tried.
C17_ValidJsonParsedDirectly ==
  (/\ extracted # NotCalled
   /\ json_loads(response_text).ok \/ json_loads(Strip(response_text)).ok)
  => /\ extracted.ok
     /\ extracted.tried = <<"direct">>
     /\ json_loads(response_text).ok
     /\ extracted.value = json_loads(response_text).value
     /\ extracted.value = json_loads(Strip(response_text)).value

C17_Witness ==
  /\ response_text = <<" ", "\"", "[", "\"">>
  /\ extracted = Returned(JStr(<<"[">>), <<"direct">>)

\* C18: for every JSON payload and every tag of the opening fence (none,
\* json, another), extracting the payload in a fenced block gives the value
\* that extracting the payload itself gives.
C18_FencedEqualsUnwrapped ==
  (extracted # NotCalled /\ At(response_text, FENCE, 1))
  => \A tag \in Tags :
       LET p == SubSeq(response_text, Len(FENCE) + Len(tag) + 2,
                       Len(response_text) - Len(FENCE_CLOSE))
       IN (response_text = Fenced(p, tag) /\ json_loads(p).ok) =>
            /\ extracted.ok
            /\ extract_json_from_response(p).ok
            /\ extracted.value = extract_json_from_response(p).value

C18_Witness ==
  /\ response_text = Fenced(<<"1">>, <<"s">>)
  /\ extracted = Returned(JNum(1), <<"direct", "fence_lines">>)

\* C19: for a text that holds neither { nor [, extract_json_from_response
\* raises and returns no value.
C19_NoMarkerAlwaysFails ==
  (/\ extracted # NotCalled
   /\ ~Contains(response_text, <<"{">>)
   /\ ~Contains(response_text, <<"[">>))
  => /\ ~extracted.ok
     /\ "value" \notin DOMAIN extracted

\* the texts of which extract_json_from_response may return the value: the
\* stripped text, the content of its first fenced block, the text without
\* its fence lines, and the stretch from its first { or [ to the last } or ]
Candidates(cleaned_text) ==
  LET m == FirstFenceMatch(cleaned_text)
      Opens == Occurrences(cleaned_text, <<"{">>) \cup Occurrences(cleaned_text, <<"[">>)
      start == Min(Opens)
      end == RFind(cleaned_text, IF cleaned_text[start] = "{" THEN <<"}">> ELSE <<"]">>)
  IN {cleaned_text}
       \cup (IF Contains(cleaned_text, FENCE)
               THEN {JoinLines(DropFenceLines(SplitLines(cleaned_text)))} ELSE {})
       \cup (IF Contains(cleaned_text, FENCE) /\ m.found THEN {m.group} ELSE {})
       \cup (IF Opens # {} /\ end >= start THEN {SubSeq(cleaned_text, start, end)} ELSE {})

\* C20: an empty or all-whitespace text makes extract_json_from_response
\* raise before any json.loads attempt; and for every text the call either
\* returns the value of a candidate that json.loads accepts as a whole, or
\* raises one of its four errors and returns no value.
C20_EmptyFailsAtOnceNothingPartial ==
  extracted # NotCalled =>
    /\ Strip(response_text) = <<>> => extracted = RaisedValueError("empty", <<>>)
    /\ extracted.ok =>
         \E c \in Candidates(Strip(response_text)) :
           json_loads(c) = [ok |-> TRUE, value |-> extracted.value]
    /\ ~extracted.ok =>
         /\ "value" \notin DOMAIN extracted
         /\ extracted.kind \in {"empty", "no_json", "malformed", "failed"}
         /\ extracted.kind = "empty" <=> Strip(response_text) = <<>>

C20_Witness ==
  /\ response_text = <<" ", "\n">>
  /\ extracted = RaisedValueError("empty", <<>>)

\* C22: when a run has ended with the status "failed", the log holds a
\* FAILURE entry with the item's input_id, the class of the error and its
\* message, wherever in the run the failure occurred.
C22_FailureAlwaysLogged ==
  (pc = "done" /\ result.status = "failed")
  => \E i \in 1..Len(log) :
       /\ log[i].status = "FAILURE"
       /\ log[i].input_id = result.input_id
       /\ "details" \in DOMAIN log[i]
       /\ {"error", "error_type"} \subseteq DOMAIN log[i].details

\* the path of a file of directory dir_name
PathOf(dir_name, filename) == OUTPUT_DIR \o "/" \o dir_name \o "/" \o filename

\* C23: a run of process calls route only with a content_type that is one
\* of the five values, the one the classifier returned, and the record is
\* written into the directory CONTENT_TYPE_DIRS gives for it: the fallback
\* is not taken, and a record of a run is in "other" only when the item was
\* classified "other".
C23_PipelineNeverFallsBack ==
  /\ \A i \in 1..Len(calls) :
       calls[i].stage = "route" =>
         /\ calls[i].args.content_type \in valid_types
         /\ calls[i].args.content_type \in DOMAIN CONTENT_TYPE_DIRS
         /\ calls[i].args.content_type = calls[1].reply.value.v.content_type
  /\ pc = "complete" =>
       LET ct == frame.content_type
       IN /\ ct \in DOMAIN CONTENT_TYPE_DIRS
          /\ \E n \in DOMAIN files[CONTENT_TYPE_DIRS[ct]] :
               /\ frame.output_path = PathOf(CONTENT_TYPE_DIRS[ct], n)
               /\ files[CONTENT_TYPE_DIRS[ct]][n] # PARTIAL
               /\ files[CONTENT_TYPE_DIRS[ct]][n].content_type = ct
               /\ files[CONTENT_TYPE_DIRS[ct]][n].classification.content_type = ct
          /\ (\E n \in DOMAIN files["other"] : frame.output_path = PathOf("other", n))
               => frame.classification.content_type = "other"

C23_Witness ==
  /\ pc = "complete"
  /\ frame.classification.content_type = "other"
  /\ \E n \in DOMAIN files["other"] :
       /\ frame.output_path = PathOf("other", n)
       /\ files["other"][n].input_id = frame.input_id
  /\ files["match_reports"] # <<>>

\* what one item comes to, computed from the item and from the replies given
\* to its own stage calls cs alone (for route, whether the write succeeded):
\* the status and the stage outputs of its result
ItemOutcome(item, cs) ==
  LET content == Get(item, "content")
      id == "item"
      failed == [status |-> "failed"]
      c == classify(content, id, cs[1].reply)
      ct == c.value.content_type
      m == extract(content, ct, id, cs[2].reply)
      teams == GetOr(m.value, "teams", "empty")
      players == GetOr(m.value, "players", "empty")
      h == generate(content, m.value, ct, id, cs[3].reply)
  IN IF ~c.ok THEN failed
     ELSE IF ~m.ok THEN failed
     ELSE IF JoinRaises(teams) \/ SliceRaises(players) \/ JoinRaises(players) THEN failed
     ELSE IF ~h.ok THEN failed
     ELSE IF ~cs[4].ok THEN failed
     ELSE [status |-> "success", classification |-> c.value,
           metadata |-> m.value, headlines |-> h.value]

\* the status and the stage outputs of a result
StatusAndOutputs(r) ==
  IF r.status = "success"
    THEN [status |-> r.status, classification |-> r.classification,
          metadata |-> r.metadata, headlines |-> r.headlines]
    ELSE [status |-> r.status]

\* C25: the status and the stage outputs of every result of a batch are
\* those computed from the item at that position and the replies to its own
\* stage calls, whatever the other items of the batch are and however they
\* ended.
C25_ItemsIndependent ==
  /\ Len(trace) = Len(results)
  /\ Len(results) <= Len(contents)
  /\ \A k \in 1..Len(results) :
       StatusAndOutputs(results[k]) = ItemOutcome(contents[k], trace[k])

C25_Witness ==
  /\ Len(results) = 2
  /\ contents[1] # contents[2]
  /\ results[1].status = "failed"
  /\ results[2].status = "success"
  /\ StatusAndOutputs(results[2]) = ItemOutcome(contents[2], trace[2])

\* number of runs the log shows to have started
RECURSIVE Starts(_)
Starts(entries) ==
  IF entries = <<>> THEN 0
  ELSE (IF Head(entries).stage = "PROCESS_START" THEN 1 ELSE 0) + Starts(Tail(entries))

\* C28: during a batch the run in progress is that of item idx, every item
\* before it has ended (success or failed) and has its result appended, and
\* no later item has been started: the runs started are the results
\* appended, plus the one in progress.
C28_BatchStrictlySequential ==
  mode = "batch" =>
    /\ Len(results) = idx - 1
    /\ Len(trace) = idx - 1
    /\ \A k \in 1..Len(results) : results[k].status \in {"success", "failed"}
    /\ Starts(log) = (IF pc = "idle" THEN idx - 1 ELSE idx)
    /\ pc # "idle" =>
         /\ idx <= Len(contents)
         /\ frame.content = Get(contents[idx], "content")
         /\ \A i \in 1..Len(calls) :
              IF calls[i].stage = "route"
                THEN calls[i].args.original_content = frame.content
                ELSE calls[i].args.content = frame.content

C28_Witness ==
  /\ mode = "batch"
  /\ idx = 2
  /\ pc = "extract"
  /\ Len(results) = 1
  /\ results[1].status = "failed"
  /\ Starts(log) = 2

\* the item whose run is in progress or has just ended
CurrentItem == IF mode = "batch" THEN contents[idx] ELSE [content |-> frame.content]

\* what the stages of the current run returned, read off the replies the
\* collaborator gave to this run
ReturnedBy(stage) ==
  LET i == CHOOSE j \in 1..Len(calls) : calls[j].stage = stage
  IN calls[i].reply.value.v

TagChars == {"j", "s", "o", "n"}

\* a line that is a fence marker and nothing else: a fence, with or without
\* a tag
IsFenceMarker(line) ==
  LET l == Strip(line)
  IN At(l, FENCE, 1) /\ \A i \in 4..Len(l) : l[i] \in TagChars

\* the lines that are not fence markers
RECURSIVE DropFenceMarkers(_)
DropFenceMarkers(lines) ==
  IF lines = <<>> THEN <<>>
  ELSE (IF IsFenceMarker(Head(lines)) THEN <<>> ELSE <<Head(lines)>>)
         \o DropFenceMarkers(Tail(lines))

\* the outcome of a call without its list of attempts
Outcome(r) == IF r.ok THEN [ok |-> TRUE, value |-> r.value] ELSE [ok |-> FALSE, kind |-> r.kind]

\* C26 as stated: when the text does not parse as it is and has fenced
\* blocks, the call returns the parse of a fenced block whenever one of the
\* blocks parses; when none parses it returns the parse of the text without
\* its fence-marker lines, and when that fails what the bracket scan gives.
C26_AnyParsingBlockReturned ==
  (extracted # NotCalled /\ Strip(response_text) # <<>>) =>
    LET t == Strip(response_text)
        blocks == FenceBlocks(t, 1)
        parsing == {k \in 1..Len(blocks) : json_loads(blocks[k]).ok}
        rest == json_loads(JoinLines(DropFenceMarkers(SplitLines(t))))
    IN (~json_loads(t).ok /\ blocks # <<>>) =>
         IF parsing # {}
           THEN /\ extracted.ok
                /\ \E k \in parsing : extracted.value = json_loads(blocks[k]).value
           ELSE IF rest.ok THEN extracted.ok /\ extracted.value = rest.value
           ELSE Outcome(extracted) = Outcome(ExtractByMarkers(t))

\* C26, amended: when the text does not parse as it is and holds a fence,
\* the call parses the first fenced block only and returns it when it parses;
\* otherwise it parses the text without the lines that begin with a fence,
\* and when that fails it gives what the bracket scan gives; the attempts are
\* made in that order and stop at the first that parses.
C26_FirstBlockThenLinesThenMarkers ==
  (extracted # NotCalled /\ Strip(response_text) # <<>>) =>
    LET t == Strip(response_text)
        blocks == FenceBlocks(t, 1)
        t1 == IF blocks # <<>> THEN <<"direct", "fence_match">> ELSE <<"direct">>
        rest == json_loads(JoinLines(DropFenceLines(SplitLines(t))))
        s3 == ExtractByMarkers(t)
    IN (~json_loads(t).ok /\ Contains(t, FENCE)) =>
         IF blocks # <<>> /\ json_loads(blocks[1]).ok
           THEN extracted = Returned(json_loads(blocks[1]).value, t1)
           ELSE IF rest.ok
             THEN extracted = Returned(rest.value, Append(t1, "fence_lines"))
             ELSE /\ Outcome(extracted) = Outcome(s3)
                  /\ extracted.tried = Append(t1, "fence_lines") \o s3.tried

\* a text whose first fenced block does not parse and whose second does:
\* the call raises
C26_Witness ==
  /\ extracted # NotCalled
  /\ Len(FenceBlocks(Strip(response_text), 1)) = 2
  /\ ~json_loads(FenceBlocks(Strip(response_text), 1)[1]).ok
  /\ json_loads(FenceBlocks(Strip(response_text), 1)[2]).ok
  /\ ~extracted.ok
  /\ extracted.tried = <<"direct", "fence_match", "fence_lines">>

\* the positions of the character c in the text t
Positions(t, c) == {i \in 1..Len(t) : t[i] = c}

\* the call has come to the bracket scan: the text did not parse as it is,
\* nor by its fences
ScanReached ==
  /\ extracted # NotCalled
  /\ Strip(response_text) # <<>>
  /\ ~json_loads(Strip(response_text)).ok
  /\ ~RemoveCodeFences(Strip(response_text)).ok

\* C27: in the bracket scan the opener is the leftmost of the occurrences of
\* "{" and "[", the closer is the bracket that matches it, the candidate runs
\* from that opener to the rightmost closer; the call raises when there is no
\* opener ("No JSON found") or no closer at or after the opener ("Malformed
\* JSON"), and otherwise gives exactly the parse of the candidate, raising
\* when the candidate does not parse.
C27_BracketScan ==
  ScanReached =>
    LET t == Strip(response_text)
        openers == Positions(t, "{") \cup Positions(t, "[")
        o == Min(openers)
        closers == Positions(t, IF t[o] = "{" THEN "}" ELSE "]")
        candidate == json_loads(SubSeq(t, o, Max(closers)))
    IN IF openers = {} THEN ~extracted.ok /\ extracted.kind = "no_json"
       ELSE IF closers = {} \/ Max(closers) < o
         THEN ~extracted.ok /\ extracted.kind = "malformed"
       ELSE IF candidate.ok
         THEN extracted.ok /\ extracted.value = candidate.value
       ELSE ~extracted.ok /\ extracted.kind = "failed"

\* a bracket before a brace, text before and after the candidate
C27_Witness ==
  /\ ScanReached
  /\ extracted.ok
  /\ Positions(Strip(response_text), "{") # {}
  /\ Positions(Strip(response_text), "[") # {}
  /\ Min(Positions(Strip(response_text), "[")) < Min(Positions(Strip(response_text), "{"))
  /\ Min(Positions(Strip(response_text), "[")) > 1
  /\ Max(Positions(Strip(response_text), "]")) < Len(Strip(response_text))
  /\ extracted.value = JList(<<>>)

\* the value with everything its keys hold replaced by one fixed thing
Blanked(value) ==
  IF value.t = "dict" THEN [value EXCEPT !.v = [k \in DOMAIN value.v |-> "blank"]]
  ELSE value

\* C21: the call raises exactly when data is not a dict or lacks one of
\* required_keys; when keys are missing the error names exactly the missing
\* keys and the keys present, and it is the error the call gives for the same
\* keys holding anything else (nothing a key holds is in it); when the call
\* returns it returns nothing, and data is as it was given.
C21_ValidateDictKeysContract ==
  validated # NotCalled =>
    LET absent == IF data.t = "dict" THEN required_keys \ DOMAIN data.v ELSE {}
    IN /\ Raised(validated.exc) <=> (data.t # "dict" \/ absent # {})
       /\ Raised(validated.exc) => validated.exc.type = "ValueError"
       /\ (data.t = "dict" /\ absent # {}) =>
            /\ validated.exc.missing = absent
            /\ validated.exc.available = DOMAIN data.v
       /\ validated.exc = validate_dict_keys(Blanked(data), required_keys, "data")
       /\ ~Raised(validated.exc) => validated.exc = NoExc
       /\ data = validated.given

C21_Witness ==
  /\ validated # NotCalled
  /\ data.t = "dict"
  /\ required_keys = ClassificationKeys
  /\ DOMAIN data.v = {"content_type", "extra"}
  /\ data.v["content_type"] # data.v["extra"]
  /\ validated.exc.missing = {"confidence", "reasoning"}
  /\ validated.exc.available = {"content_type", "extra"}

\* C24: when the two concurrent calls of route have both returned, the
\* counts of get_routing_stats add up to 2 more than before the calls.
C24_ParallelRoutesCountTwo ==
  (\A th \in Threads : threads[th].pc = "returned")
    => Total(get_routing_stats(files)) = Total(get_routing_stats(filesAtCall)) + 2

\* the result of every item of the batch is there and is terminal
BatchReturned ==
  /\ returned.op = "process_batch"
  /\ Len(returned.results) = Len(contents)
  /\ \A k \in 1..Len(returned.results) : returned.results[k].status \in {"success", "failed"}

\* C29: every run that has started ends, COMPLETE or FAILED; every call of
\* process returns and every call of process_batch returns with a terminal
\* result for each item; a run that has ended does not leave its state but
\* to be returned, its result is never changed, and the results appended in
\* a batch stay as they are.
C29_EveryRunTerminates ==
  /\ (pc \notin {"idle", "done"}) ~> (pc = "done" /\ RunState \in {"COMPLETE", "FAILED"})
  /\ (mode = "single") ~> (returned.op = "process")
  /\ (mode = "batch") ~> BatchReturned
  /\ [][/\ pc = "done" => (result' = result /\ pc' \in {"done", "idle"})
        /\ (mode = "batch" /\ mode' = "batch")
             => SubSeq(results', 1, Len(results)) = results]_vars

C29_Witness ==
  /\ BatchReturned
  /\ Len(returned.results) = 2
  /\ returned.results[1].status = "failed"
  /\ returned.results[2].status = "success"

\* ------------------------------------------------ the metadata handling
\* the reply with key_stats taken out of its JSON object
WithoutKeyStats(reply) ==
  Parsed("dict", [key \in DOMAIN reply.value.v \ {"key_stats"} |-> reply.value.v[key]])

\* the reply holds a JSON object
HoldsObject(reply) == reply.call = "ok" /\ reply.parse = "ok" /\ reply.value.t = "dict"

\* the reply was parsed into a JSON value that is not an object
HoldsListOrScalar(reply) == reply.call = "ok" /\ reply.parse = "ok" /\ reply.value.t # "dict"

\* extract has returned a metadata for the reply
ExtractAccepted == extraction.called /\ extraction.at # "extract"

FollowsInstruction(reply) ==
  /\ HoldsObject(reply)
  /\ {"teams", "players", "competition", "sentiment"} \subseteq DOMAIN reply.value.v
  /\ reply.value.v.teams \in {"strs", "empty", "null"}
  /\ reply.value.v.players \in {"strs", "empty", "null"}

\* C32: a reply that follows the extraction instruction, with null or an
\* empty list for teams, players, competition or sentiment, does not make the
\* item fail at extract, at the progress report or at the building of the
\* generation prompt.
C32_NullOrEmptyAccepted ==
  FollowsInstruction(extraction_reply) => extraction_pc # "failed"

\* ------------------------------------------------------ the log of a run
\* the positions of the log at which a run starts: log_start is called by
\* process alone, once, before anything else of the run is logged
RunStarts == {i \in 1..Len(log) : log[i].stage = "PROCESS_START"}

\* the position at which the k-th run of the log starts
NthStart(k) == CHOOSE i \in RunStarts : Cardinality({j \in RunStarts : j <= i}) = k

\* the entries of the k-th run: from its start to the start of the next run
RunLog(k) ==
  LET later == {j \in RunStarts : j > NthStart(k)}
  IN SubSeq(log, NthStart(k), IF later = {} THEN Len(log) ELSE Min(later) - 1)

\* the result of the k-th run of the log, NoResult while the run has not ended
RunResult(k) ==
  IF k <= Len(results) THEN results[k]
  ELSE IF pc \in {"done", "idle"} THEN result
  ELSE NoResult

\* the events of a run that succeeds, in order
LogOrder == <<"PROCESS_START", "CLASSIFY", "EXTRACT", "GENERATE", "ROUTE", "PROCESS_COMPLETE">>

\* C33: the log of every run is ordered with one event per stage: its
\* events are those of PROCESS_START, CLASSIFY, EXTRACT, GENERATE, ROUTE,
\* PROCESS_COMPLETE in that order, each stage at most once (so at most one of
\* SUCCESS and FAILURE per stage), all with the input_id of the run; nothing
\* follows a FAILURE event; a run whose result is "success" has emitted
\* exactly the six events with SUCCESS for each stage, and a run that has
\* ended has emitted PROCESS_COMPLETE if and only if its result is "success".
C33_LogOrderedPerRun ==
  \A k \in 1..Cardinality(RunStarts) :
    LET seg == RunLog(k)
        r == RunResult(k)
        completed == \E i \in 1..Len(seg) : seg[i].stage = "PROCESS_COMPLETE"
    IN /\ Len(seg) <= Len(LogOrder)
       /\ \A i \in 1..Len(seg) :
            /\ seg[i].stage = LogOrder[i]
            /\ seg[i].input_id = seg[1].input_id
            /\ seg[i].status \in {"SUCCESS", "FAILURE"}
            /\ seg[i].status = "FAILURE" => i = Len(seg)
            /\ seg[i].stage \in {"PROCESS_START", "PROCESS_COMPLETE"} => seg[i].status = "SUCCESS"
       /\ r.status = "success" =>
            /\ Len(seg) = Len(LogOrder)
            /\ \A i \in 1..Len(seg) : seg[i].status = "SUCCESS"
            /\ seg[1].input_id = r.input_id
       /\ r.status = "failed" => seg[1].input_id = r.input_id
       /\ r.status \in {"success", "failed"} => (completed <=> r.status = "success")
       /\ completed => r.status = "success"

\* C33 witness: a batch has returned whose first run failed in the classifier
\* and whose second run succeeded: the log holds the start and the CLASSIFY
\* FAILURE of the first, then the six events of the second
C33_Witness ==
  /\ returned.op = "process_batch"
  /\ Len(returned.results) = 2
  /\ returned.results[1].status = "failed"
  /\ returned.results[2].status = "success"
  /\ Len(log) = 8
  /\ log[2].stage = "CLASSIFY" /\ log[2].status = "FAILURE"
  /\ log[3].stage = "PROCESS_START"
  /\ log[8].stage = "PROCESS_COMPLETE"

\* ------------------------------------------------- the keys of a result
\* the keys of the dict process returns for a failure, and for a success
FailedKeys == {"input_id", "status", "error"}
SuccessKeys == {"input_id", "status", "classification", "metadata", "headlines", "output_path"}

\* the result r of a run whose stage calls were cs has the keys of its status,
\* and a success result holds what the stages returned: a classification of
\* a valid type, the JSON object of the extractor, the three headlines and
\* the path of the file written
ResultShape(r, cs) ==
  /\ r.status \in {"success", "failed"}
  /\ r.status = "failed" => DOMAIN r = FailedKeys
  /\ r.status = "success" =>
       /\ DOMAIN r = SuccessKeys
       /\ r.classification.content_type \in valid_types
       /\ \E i \in 1..Len(cs) :
            /\ cs[i].stage = "extract"
            /\ cs[i].reply.value.t = "dict"
            /\ r.metadata = cs[i].reply.value.v
       /\ {"neutral", "fan_oriented", "casual_viewer"} \subseteq DOMAIN r.headlines
       /\ \E d \in Dirs : \E n \in DOMAIN files[d] : r.output_path = PathOf(d, n)

====
